---- MODULE Spec2Model ----
\* A model of the readonly_ai news aggregator: URL identity (generate_article_id),
\* the webpage filter (is_valid_webpage_url), the article store (insert_article,
\* get_unanalysed_articles, insert_article_analysis) and the batch analysis
\* engine (analyze_articles_batch, run_article_analysis).
\*
\* Python strings are modelled as sequences of tokens: a token is an indivisible
\* piece of text ("https", ":", "//", "x.com", "/", "a", ".pdf", "?", ...), so
\* that lower(), strip(), split(), startswith(), endswith(), urlparse() and
\* parse_qs() are computed on the text and not assumed.
EXTENDS Integers, Sequences, FiniteSets, TLC

VARIABLES
    \* ---- URL functions applied to drawn inputs
    uparts,     \* the components the input URL was written from
    url,        \* the input URL (token string)
    url2,       \* a second URL derived from url (a parameter added, the path changed)
    uop,        \* which URL operation produced url2 / the results
    id1,        \* generate_article_id(url)
    id2,        \* generate_article_id(url2)
    valid,      \* is_valid_webpage_url(url)
    \* ---- the article store
    dbType,     \* DATABASE_TYPE: "sqlite" or "postgresql"
    articles,   \* table articles: a set of rows
    analyses,   \* table articles_analyses: a set of rows
    ret,        \* return value of the last store operation
    call,       \* the last store operation and its arguments
    attempted,  \* keys, titles and article_ids of the valid records given to insert_article
    written,    \* the analysis most recently committed for each article_id
    nops,       \* number of store operations so far
    \* ---- the analysis engine
    apiKey,                 \* whether GEMINI_API_KEY is set
    pc,                     \* where run_article_analysis stands
    consecutive_failures,   \* local of run_article_analysis
    total_analyzed,         \* local of run_article_analysis
    unanalysed,             \* local of run_article_analysis: the fetched batch
    service_calls,          \* generate_content calls made so far
    pause,                  \* seconds of the last time.sleep of the run
    attempts,               \* analyze_articles_batch calls made by the run
    sleeps,                 \* time.sleep calls made by the run
    faulted,                \* history: a store read of the run failed, or the
                            \* service had an answer ready that breaks the contract
    \* ---- the command line
    command,            \* the subcommand given to main
    cliArgs,            \* --hb, --score, --language
    env,                \* credentials, config file, what the store and services hold
    cpc,                \* where main stands
    stage,              \* handle_all: index of the next entry of scrapers
    ran,                \* handle_all: the entries of scrapers run so far
    failed_scrapers,    \* handle_all: local list
    effects,            \* create_database, external calls and inserts made so far
    report,             \* handle_all: the final line printed
    document,           \* the digest file written by run_summary_generator
    exit_code,          \* exit status of the process, -1 while it runs
    \* ---- the digest functions applied to drawn inputs
    summary_text,           \* the text returned by the summarization service
    articles_dict,          \* the result of get_recent_articles handed to them
    referenced_articles,    \* result of extract_referenced_articles
    discussion_section,     \* result of build_discussion_threads_section: its lines
    dpc,                    \* which of the two functions has been applied
    \* ---- two ingest runs calling insert_article at the same time
    irec,                   \* per run, the record its call carries
    ipc,                    \* per run, where its call is: "idle", "call" (before the
                            \* INSERT), "executed" (before the commit), "returned"
    iret,                   \* per run, the bool its call returned
    pend,                   \* per run, the result of its INSERT not yet committed
    lock,                   \* the run whose transaction holds the write lock, 0 if none
    before                  \* history: the articles table before the two calls

urlVars == <<uparts, url, url2, uop, id1, id2, valid>>
storeVars == <<dbType, articles, analyses, ret, call, attempted, written, nops>>
runVars == <<apiKey, pc, consecutive_failures, total_analyzed, unanalysed,
             service_calls, pause, attempts, sleeps, faulted>>
cliVars == <<command, cliArgs, env, cpc, stage, ran, failed_scrapers, effects,
             report, document, exit_code>>
digestVars == <<summary_text, articles_dict, referenced_articles, discussion_section, dpc>>
concVars == <<irec, ipc, iret, pend, lock, before>>
vars == <<uparts, url, url2, uop, id1, id2, valid,
          dbType, articles, analyses, ret, call, attempted, written, nops,
          apiKey, pc, consecutive_failures, total_analyzed, unanalysed,
          service_calls, pause, attempts, sleeps, faulted,
          command, cliArgs, env, cpc, stage, ran, failed_scrapers, effects,
          report, document, exit_code,
          summary_text, articles_dict, referenced_articles, discussion_section, dpc,
          irec, ipc, iret, pend, lock, before>>

\* ------------------------------------------------------------------ text

\* Python None, kept distinct from every string
None == <<"<None>">>
EmptyStr == <<>>

Whitespace == {" "}

\* str.lower() on one token
LowerTok(t) ==
    CASE t = "HTTPS" -> "https"
      [] t = "A" -> "a"
      [] t = ".PDF" -> ".pdf"
      [] t = "UTM_SOURCE" -> "utm_source"
      [] t = "ML" -> "ml"
      [] OTHER -> t

lower(s) == [i \in 1..Len(s) |-> LowerTok(s[i])]

SetMin(S) == CHOOSE x \in S : \A y \in S : x <= y
SetMax(S) == CHOOSE x \in S : \A y \in S : x >= y

\* str.strip(): leading and trailing whitespace removed
strip(s) ==
    LET keep == {i \in 1..Len(s) : s[i] \notin Whitespace}
    IN  IF keep = {} THEN <<>> ELSE SubSeq(s, SetMin(keep), SetMax(keep))

\* index of the first token of s that is not whitespace, 0 when there is none
FirstText(s) ==
    LET keep == {i \in 1..Len(s) : s[i] \notin Whitespace}
    IN  IF keep = {} THEN 0 ELSE SetMin(keep)

\* str.find(t): first index of token t in s, 0 when absent
find(s, t) ==
    LET hits == {i \in 1..Len(s) : s[i] = t}
    IN  IF hits = {} THEN 0 ELSE SetMin(hits)

\* first index in s of any token of T, 0 when absent
findAny(s, T) ==
    LET hits == {i \in 1..Len(s) : s[i] \in T}
    IN  IF hits = {} THEN 0 ELSE SetMin(hits)

\* last index of token t in s, 0 when absent
rfind(s, t) ==
    LET hits == {i \in 1..Len(s) : s[i] = t}
    IN  IF hits = {} THEN 0 ELSE SetMax(hits)

startswith(s, p) == Len(s) >= Len(p) /\ SubSeq(s, 1, Len(p)) = p

endswithTok(s, t) == Len(s) >= 1 /\ s[Len(s)] = t

\* str.split(sep): the pieces of s between occurrences of token sep
RECURSIVE split(_, _)
split(s, sep) ==
    LET i == find(s, sep)
    IN  IF i = 0 THEN <<s>>
        ELSE <<SubSeq(s, 1, i - 1)>> \o split(SubSeq(s, i + 1, Len(s)), sep)

\* sep.join(pieces)
RECURSIVE join(_, _)
join(pieces, sep) ==
    IF Len(pieces) = 0 THEN <<>>
    ELSE IF Len(pieces) = 1 THEN pieces[1]
    ELSE pieces[1] \o <<sep>> \o join(Tail(pieces), sep)

\* ------------------------------------------------------------------ urllib

Delims == {":", "//", "/", "?", "#", "&", "=", ";", " ", "[", "]"}

\* tokens a URL scheme cannot contain / cannot start with
NonSchemeToks == Delims \cup {"%20", "utm_source", "UTM_SOURCE", "mc_cid"}
NonAlphaStartToks == NonSchemeToks \cup {".pdf", ".PDF", ".zip", "+", "1"}

\* urllib.parse.urlparse(url), in the order urlsplit works: the scheme up to the
\* first ":", the netloc after "//" up to the first of "/", "?", "#" (an
\* unmatched bracket in it raises ValueError), the fragment after the first
\* "#", the query after the first "?", and the params after the first ";" of
\* the last path segment.
\* Each step hands its results on as arguments.
BadNetloc(netloc) == (find(netloc, "[") > 0) # (find(netloc, "]") > 0)

\* _splitparams(url): r4 is the text left of "?", sl the index of its last "/"
SplitParams(scheme, netloc, fragment, query, r4, sl, semi) ==
    [raises |-> BadNetloc(netloc),
     scheme |-> scheme,
     netloc |-> netloc,
     path |-> IF semi = 0 THEN r4 ELSE SubSeq(r4, 1, sl + semi - 1),
     params |-> IF semi = 0 THEN <<>> ELSE SubSeq(r4, sl + semi + 1, Len(r4)),
     query |-> query,
     fragment |-> fragment]

SplitPath(scheme, netloc, fragment, query, r4) ==
    SplitParams(scheme, netloc, fragment, query, r4, rfind(r4, "/"),
                find(SubSeq(r4, rfind(r4, "/") + 1, Len(r4)), ";"))

SplitQuery(scheme, netloc, fragment, r3, q) ==
    SplitPath(scheme, netloc, fragment,
              IF q = 0 THEN <<>> ELSE SubSeq(r3, q + 1, Len(r3)),
              IF q = 0 THEN r3 ELSE SubSeq(r3, 1, q - 1))

SplitFragment(scheme, netloc, r2, h) ==
    SplitQuery(scheme, netloc,
               IF h = 0 THEN <<>> ELSE SubSeq(r2, h + 1, Len(r2)),
               IF h = 0 THEN r2 ELSE SubSeq(r2, 1, h - 1),
               find(IF h = 0 THEN r2 ELSE SubSeq(r2, 1, h - 1), "?"))

\* _splitnetloc(url, 2): afterSl is the text after "//", nEnd the index of the
\* first delimiter in it
SplitNetloc(scheme, afterSl, nEnd) ==
    SplitFragment(scheme,
                  IF nEnd = 0 THEN afterSl ELSE SubSeq(afterSl, 1, nEnd - 1),
                  IF nEnd = 0 THEN <<>> ELSE SubSeq(afterSl, nEnd, Len(afterSl)),
                  find(IF nEnd = 0 THEN <<>> ELSE SubSeq(afterSl, nEnd, Len(afterSl)), "#"))

AfterScheme(scheme, r1) ==
    IF Len(r1) >= 1 /\ r1[1] = "//"
    THEN SplitNetloc(scheme, Tail(r1), findAny(Tail(r1), {"/", "//", "?", "#"}))
    ELSE SplitFragment(scheme, <<>>, r1, find(r1, "#"))

\* c is the index of the first ":"
HasScheme(u, c) ==
    /\ c > 1
    /\ u[1] \notin NonAlphaStartToks
    /\ \A i \in 1..(c - 1) : u[i] \notin NonSchemeToks

urlparse(u) ==
    IF HasScheme(u, find(u, ":"))
    THEN AfterScheme(lower(SubSeq(u, 1, find(u, ":") - 1)),
                     SubSeq(u, find(u, ":") + 1, Len(u)))
    ELSE AfterScheme(<<>>, u)

\* unquote(x.replace("+", " ")) on one token
UnquotePlusTok(t) == IF t \in {"+", "%20"} THEN " " ELSE t
\* quote_plus on one token
QuotePlusTok(t) ==
    CASE t = " " -> "+"
      [] t = "/" -> "%2F"
      [] OTHER -> t

unquote_plus(s) == [i \in 1..Len(s) |-> UnquotePlusTok(s[i])]
quote_plus(s) == [i \in 1..Len(s) |-> QuotePlusTok(s[i])]

\* dict[k].append(v) on an insertion-ordered dict kept as a sequence of
\* [k, vs] entries
DictAppend(d, k, v) ==
    IF \E i \in 1..Len(d) : d[i].k = k
    THEN [i \in 1..Len(d) |->
            IF d[i].k = k THEN [k |-> k, vs |-> Append(d[i].vs, v)] ELSE d[i]]
    ELSE Append(d, [k |-> k, vs |-> <<v>>])

\* urllib.parse.parse_qs(query): pairs split at "&", each at its first "=";
\* a piece without "=" or with a blank value is dropped (keep_blank_values is
\* False); values of a repeated name are collected under its first occurrence.
\* one name=value piece, e the index of its first "="
AddPiece(d, nv, e) ==
    IF e = 0 \/ e = Len(nv) THEN d
    ELSE DictAppend(d, unquote_plus(SubSeq(nv, 1, e - 1)),
                    unquote_plus(SubSeq(nv, e + 1, Len(nv))))

RECURSIVE ParseQsPieces(_, _)
ParseQsPieces(pieces, d) ==
    IF Len(pieces) = 0 THEN d
    ELSE ParseQsPieces(Tail(pieces), AddPiece(d, pieces[1], find(pieces[1], "=")))

parse_qs(query) == ParseQsPieces(split(query, "&"), <<>>)

\* urllib.parse.urlencode(d, doseq=True)
RECURSIVE EncodeValues(_, _)
EncodeValues(k, vs) ==
    IF Len(vs) = 0 THEN <<>>
    ELSE <<quote_plus(k) \o <<"=">> \o quote_plus(vs[1])>> \o EncodeValues(k, Tail(vs))

RECURSIVE EncodePairs(_)
EncodePairs(d) ==
    IF Len(d) = 0 THEN <<>>
    ELSE EncodeValues(d[1].k, d[1].vs) \o EncodePairs(Tail(d))

urlencode(d) == join(EncodePairs(d), "&")

\* ------------------------------------------------------------------ database.py: identity

TRACKING_PARAMS ==
    { <<"utm_source">>, <<"utm_medium">>, <<"utm_campaign">>, <<"utm_term">>,
      <<"utm_content">>, <<"fbclid">>, <<"gclid">>, <<"ref">>, <<"source">>,
      <<"campaign">>, <<"medium">>, <<"_ga">>, <<"_gid">>, <<"mc_cid">>, <<"mc_eid">> }

\* hashlib.md5(x).hexdigest(), taken as collision-free: the digest names its input
md5(s) == <<"md5">> \o s

\* the filter with "ref" missing from the tracking set
cleaned_params_keeping_ref(d) ==
    SelectSeq(d, LAMBDA e : lower(e.k) \notin (TRACKING_PARAMS \ { <<"ref">> }))

\* {k: v for k, v in query_params.items() if k.lower() not in TRACKING_PARAMS}
cleaned_params(d) == SelectSeq(d, LAMBDA e : lower(e.k) \notin TRACKING_PARAMS)

\* the clean URL built without the path
clean_url_without_path(parsed, cleaned_query) ==
    parsed.scheme \o <<":", "//">> \o parsed.netloc
    \o (IF Len(cleaned_query) > 0 THEN <<"?">> \o cleaned_query ELSE <<>>)

\* f"{parsed.scheme}://{parsed.netloc}{parsed.path}" [+ f"?{cleaned_query}"]
clean_url(parsed, cleaned_query) ==
    parsed.scheme \o <<":", "//">> \o parsed.netloc \o parsed.path
    \o (IF Len(cleaned_query) > 0 THEN <<"?">> \o cleaned_query ELSE <<>>)

\* a lone surrogate code point, as json.loads gives for "\ud800": a str that
\* str.encode("utf-8") refuses with UnicodeEncodeError
Surrogate == "<U+D800>"
encode_raises(s) == \E i \in 1..Len(s) : s[i] = Surrogate

\* what stands for the id when generate_article_id raises instead of returning
UnicodeRaised == <<"<UnicodeEncodeError>">>

\* the except branch: hashlib.md5(url.encode("utf-8")).hexdigest(), outside
\* any try
hash_raw(u) ==
    IF encode_raises(u) THEN UnicodeRaised ELSE md5(u)

\* the last line of the try block: hashlib.md5(clean_url.encode("utf-8"));
\* its UnicodeEncodeError is caught by `except Exception`
hash_clean(u, c) ==
    IF encode_raises(c) THEN hash_raw(u) ELSE md5(c)

\* the try block of generate_article_id on the parsed URL; the except branch
\* hashes the url as given
hash_parsed(u, parsed) ==
    IF parsed.raises THEN hash_raw(u)
    ELSE hash_clean(u, clean_url(parsed, urlencode(cleaned_params(parse_qs(parsed.query)))))

generate_article_id(u) ==
    IF Len(u) = 0 THEN EmptyStr
    ELSE hash_parsed(u, urlparse(strip(lower(u))))

\* ------------------------------------------------------------------ utils.py: filter

excluded_extensions ==
    { ".jpg", ".jpeg", ".png", ".gif", ".webp", ".svg", ".bmp",
      ".mp4", ".avi", ".mov", ".mkv", ".webm", ".flv",
      ".pdf", ".doc", ".docx", ".ppt", ".pptx",
      ".zip", ".rar", ".tar", ".gz",
      ".mp3", ".wav", ".flac", ".ogg" }

is_valid_webpage_url(u) ==
    IF \/ Len(u) = 0
       \/ ~(startswith(u, <<"http", ":", "//">>) \/ startswith(u, <<"https", ":", "//">>))
    THEN FALSE
    ELSE ~ \E ext \in excluded_extensions : endswithTok(split(lower(u), "?")[1], ext)

\* ------------------------------------------------------------------ URL inputs

Schemes == { <<"https">>, <<"HTTPS">>, <<"ftp">> }
Hosts == { <<"x.com">>, <<"[", "x">>, <<"x", ".zip">> }
Paths == { <<>>, <<"/", "a">>, <<"/", "A">>, <<"/", "b">>, <<"/", "a", ".pdf">>,
           <<"/", "a", ".PDF">>, <<"/", "a", ";", "p">>, <<"/", Surrogate>> }
Queries == { <<>>,
             <<"q", "=", "1">>,
             <<"utm_source", "=", "tw">>,
             <<"q", "=", "1", "&", "ref", "=", "1">>,
             <<"UTM_SOURCE", "=", "tw", "&", "q", "=", "1">>,
             <<"q">>,
             <<"q", "=">>,
             <<"q", "=", "a", "+", "b", "&", "f", "=", ".pdf">>,
             <<"q", "=", "1", "&", "p", "=", "2", "&", "q", "=", "3">> }
Fragments == { <<>>, <<"#", "f">>, <<"#", "f", ".pdf">> }
Paddings == { <<>>, <<" ">> }
ParamValues == { <<"foo">>, <<>> }

UrlParts ==
    [pre : Paddings, scheme : Schemes, host : Hosts, path : Paths,
     query : Queries, fragment : Fragments]

\* the URL text written from its components
Render(p) ==
    p.pre \o p.scheme \o <<":", "//">> \o p.host \o p.path
    \o (IF Len(p.query) > 0 THEN <<"?">> \o p.query ELSE <<>>)
    \o p.fragment \o p.pre

\* core with k=v added to its query, h the index of its "#"
AddToCore(core, h, k, v) ==
    (IF h = 0 THEN core ELSE SubSeq(core, 1, h - 1))
    \o <<IF find(IF h = 0 THEN core ELSE SubSeq(core, 1, h - 1), "?") = 0 THEN "?" ELSE "&">>
    \o k \o <<"=">> \o v
    \o (IF h = 0 THEN <<>> ELSE SubSeq(core, h, Len(core)))

\* u with the query parameter k=v added: appended to the query (which is
\* started with "?" when u has none), before the fragment; whitespace around
\* the URL stays around it
AddQueryParam(u, k, v) ==
    IF FirstText(u) = 0 THEN u
    ELSE SubSeq(u, 1, FirstText(u) - 1)
         \o AddToCore(strip(u), find(strip(u), "#"), k, v)
         \o SubSeq(u, FirstText(u) + Len(strip(u)), Len(u))

\* the url argument: the text written from the components, and the empty
\* string, drawn once next to the shortest URL
BlankParts ==
    [pre |-> <<>>, scheme |-> <<"https">>, host |-> <<"x.com">>, path |-> <<>>,
     query |-> <<>>, fragment |-> <<>>]

UrlTexts(p) ==
    IF p = BlankParts THEN {Render(p), EmptyStr} ELSE {Render(p)}

UrlInit ==
    /\ uparts \in UrlParts
    /\ url \in UrlTexts(uparts)
    /\ url2 = <<>>
    /\ uop = "input"
    /\ id1 = <<>>
    /\ id2 = <<>>
    /\ valid = FALSE

\* generate_article_id applied to the input URL
UrlGenerate ==
    /\ uop = "input"
    /\ id1' = generate_article_id(url)
    /\ uop' = "generated"
    /\ UNCHANGED <<uparts, url, url2, id2, valid>>

\* generate_article_id applied to the URL with a tracking parameter added
UrlAddTracking ==
    /\ uop = "generated"
    /\ \E k \in TRACKING_PARAMS, v \in ParamValues :
          /\ url2' = AddQueryParam(url, k, v)
          /\ id2' = generate_article_id(AddQueryParam(url, k, v))
    /\ uop' = "tracked"
    /\ UNCHANGED <<uparts, url, id1, valid>>

\* generate_article_id applied to the URL with another path
UrlChangePath ==
    /\ uop = "generated"
    /\ \E p2 \in Paths \ {uparts.path} :
          /\ url2' = Render([uparts EXCEPT !.path = p2])
          /\ id2' = generate_article_id(Render([uparts EXCEPT !.path = p2]))
    /\ uop' = "repathed"
    /\ UNCHANGED <<uparts, url, id1, valid>>

\* is_valid_webpage_url applied to the input URL
UrlValidate ==
    /\ uop = "input"
    /\ valid' = is_valid_webpage_url(url)
    /\ uop' = "validated"
    /\ UNCHANGED <<uparts, url, url2, id1, id2>>

\* ------------------------------------------------------------------ database.py: store

\* bs4 get_text(): markup removed
Tags == {"<b>", "</b>"}
get_text(s) == SelectSeq(s, LAMBDA t : t \notin Tags)

\* " ".join(text.split()): runs of whitespace collapsed, ends trimmed
RECURSIVE CollapseWs(_)
CollapseWs(s) ==
    IF Len(s) <= 1 THEN s
    ELSE IF s[1] \in Whitespace /\ s[2] \in Whitespace THEN CollapseWs(Tail(s))
    ELSE <<s[1]>> \o CollapseWs(Tail(s))

clean_text(text) ==
    IF text = None \/ Len(text) = 0 THEN None
    ELSE strip(CollapseWs(strip(get_text(text))))

\* `not value or not str(value).strip()`
IsMissing(value) == value = None \/ Len(value) = 0 \/ Len(strip(value)) = 0

\* `not x` for an Optional[str]
Falsy(x) == x = None \/ Len(x) = 0

RequiredFields == {"parser", "source", "id", "title", "date", "article_url"}

missing_fields(a) == {f \in RequiredFields : IsMissing(a[f])}

\* the bound parameters of INSERT_ARTICLE
insert_params(a) ==
    [parser |-> strip(a.parser),
     source |-> strip(a.source),
     id |-> strip(a.id),
     subset |-> IF Falsy(a.subset) THEN None ELSE strip(a.subset),
     thread_url |-> IF Falsy(a.thread_url) THEN None ELSE strip(a.thread_url),
     title |-> clean_text(a.title),
     content |-> clean_text(a.content),
     date |-> strip(a.date),
     article_id |-> generate_article_id(a.article_url),
     article_url |-> strip(a.article_url)]

\* the rejection test without the check of the cleaned title
insert_rejected_title_unchecked(a) ==
    \/ missing_fields(a) # {}
    \/ Len(generate_article_id(a.article_url)) = 0

\* insert_article stops before the INSERT: a required field is missing, no
\* article_id could be generated, or the cleaned title is empty
insert_rejected(a) ==
    \/ missing_fields(a) # {}
    \/ Len(generate_article_id(a.article_url)) = 0
    \/ Falsy(clean_text(a.title))

\* PRIMARY KEY (source, id)
pk_conflict(tbl, row) ==
    \E r \in tbl : r.source = row.source /\ r.id = row.id

\* CREATE UNIQUE INDEX idx_article_id_unique ON articles (article_id)
article_id_conflict(tbl, row) ==
    \E r \in tbl : r.article_id = row.article_id

\* an INSERT OR REPLACE: the stored rows that conflict with the new row are
\* deleted and the new row goes in
exec_insert_article_replacing(db, tbl, row) ==
    [articles |-> {r \in tbl : ~ ((r.source = row.source /\ r.id = row.id)
                                    \/ r.article_id = row.article_id)} \cup {row},
     rowcount |-> 1, raised |-> FALSE]

\* INSERT_ARTICLE executed: SQLite's INSERT OR IGNORE skips the row on any
\* uniqueness conflict; PostgreSQL's ON CONFLICT (source, id) DO NOTHING skips
\* it on a primary-key conflict and raises IntegrityError on a conflict with
\* idx_article_id_unique. rowcount is 1 only when the row went in.
exec_insert_article(db, tbl, row) ==
    IF pk_conflict(tbl, row) THEN [articles |-> tbl, rowcount |-> 0, raised |-> FALSE]
    ELSE IF article_id_conflict(tbl, row)
         THEN [articles |-> tbl, rowcount |-> 0, raised |-> (db = "postgresql")]
    ELSE [articles |-> tbl \cup {row}, rowcount |-> 1, raised |-> FALSE]

\* the try block of insert_article: `return result.rowcount > 0`, and False
\* from the except branch
insert_outcome(tbl, res) ==
    IF res.raised THEN [articles |-> tbl, ret |-> FALSE]
    ELSE [articles |-> res.articles, ret |-> res.rowcount > 0]

\* insert_article: the table it leaves and the bool it returns
insert_article(db, tbl, a) ==
    IF insert_rejected(a) THEN [articles |-> tbl, ret |-> FALSE]
    ELSE insert_outcome(tbl, exec_insert_article(db, tbl, insert_params(a)))

\* the query without its WHERE clause: every row of articles
unanalysed_rows_all(tbl, an) ==
    {r \in tbl : TRUE}

\* GET_UNANALYSED_ARTICLES without the ordering: the rows of articles with no
\* row in articles_analyses (LEFT JOIN ... WHERE aa.article_id IS NULL)
unanalysed_rows(tbl, an) ==
    {r \in tbl : ~ \E x \in an : x.article_id = r.article_id}

\* dates are TEXT in "%Y-%m-%d %H:%M:%S" form and compare as strings
DateValue(d) ==
    CASE d = <<"2025-06-01">> -> 1
      [] d = <<"2025-06-02">> -> 2
      [] OTHER -> 0
DateLess(a, b) == DateValue(a) < DateValue(b)

\* ORDER BY a.date DESC [LIMIT n]: the row sequences the query may return
\* (rows of equal date come in any order); limit 0 stands for no LIMIT
IsDateDesc(q) == \A i, j \in 1..Len(q) : i < j => ~ DateLess(q[i].date, q[j].date)

\* the ordering without the LIMIT clause
ordered_rows_unlimited(rows, limit) ==
    LET n == Cardinality(rows)
    IN  {q \in [1..n -> rows] :
            /\ \A i, j \in 1..n : i # j => q[i] # q[j]
            /\ IsDateDesc(q)}

ordered_rows(rows, limit) ==
    LET n == Cardinality(rows)
        full == {q \in [1..n -> rows] :
                    /\ \A i, j \in 1..n : i # j => q[i] # q[j]
                    /\ IsDateDesc(q)}
    IN  {IF limit = 0 \/ limit >= n THEN q ELSE SubSeq(q, 1, limit) : q \in full}

\* the loop of get_unanalysed_articles: rows grouped by article_id into an
\* insertion-ordered dict, each entry with the article_url of its first row
\* and one {title, content} per row
RECURSIVE group_rows(_, _)
group_rows(q, d) ==
    IF Len(q) = 0 THEN d
    ELSE LET row == q[1]
             src == [title |-> row.title, content |-> row.content]
             d1 == IF \E i \in 1..Len(d) : d[i].article_id = row.article_id
                   THEN d
                   ELSE Append(d, [article_id |-> row.article_id,
                                   article_url |-> row.article_url,
                                   sources |-> <<>>])
         IN  group_rows(Tail(q),
                 [i \in 1..Len(d1) |->
                     IF d1[i].article_id = row.article_id
                     THEN [d1[i] EXCEPT !.sources = Append(@, src)]
                     ELSE d1[i]])

\* the results get_unanalysed_articles(limit) may return
get_unanalysed_articles(tbl, an, limit) ==
    {group_rows(q, <<>>) : q \in ordered_rows(unanalysed_rows(tbl, an), limit)}

\* a stored date as hours on the clock CURRENT_TIMESTAMP / datetime('now') reads
Timestamp(d) == 24 * DateValue(d)

\* the query with an upper end of the window added: rows dated after now are
\* left out
recent_rows_until_now(tbl, an, now, hours_back, min_relevance, category) ==
    {r \in tbl :
        /\ Timestamp(r.date) >= now - hours_back
        /\ Timestamp(r.date) <= now
        /\ \E aa \in an : /\ aa.article_id = r.article_id
                           /\ aa.relevance_score >= min_relevance
                           /\ aa.category = category}

\* GET_RECENT_ARTICLES without the ordering: the rows of articles joined to
\* their analysis (INNER JOIN), dated at or after now - hours_back, whose
\* analysis has relevance_score >= min_relevance and the category asked for
recent_rows(tbl, an, now, hours_back, min_relevance, category) ==
    {r \in tbl :
        /\ Timestamp(r.date) >= now - hours_back
        /\ \E aa \in an : /\ aa.article_id = r.article_id
                           /\ aa.relevance_score >= min_relevance
                           /\ aa.category = category}

\* the loop of get_recent_articles: rows grouped by article_id into an
\* insertion-ordered dict, each entry with the article_url of its first row
\* and dict(row) per row
RECURSIVE group_full_rows(_, _)
group_full_rows(q, d) ==
    IF Len(q) = 0 THEN d
    ELSE LET row == q[1]
             d1 == IF \E i \in 1..Len(d) : d[i].article_id = row.article_id
                   THEN d
                   ELSE Append(d, [article_id |-> row.article_id,
                                   article_url |-> row.article_url,
                                   sources |-> <<>>])
         IN  group_full_rows(Tail(q),
                 [i \in 1..Len(d1) |->
                     IF d1[i].article_id = row.article_id
                     THEN [d1[i] EXCEPT !.sources = Append(@, row)]
                     ELSE d1[i]])

\* the results get_recent_articles(hours_back, min_relevance_score, category)
\* may return when the clock reads now
get_recent_articles(tbl, an, now, hours_back, min_relevance, category) ==
    {group_full_rows(q, <<>>) :
        q \in ordered_rows(recent_rows(tbl, an, now, hours_back, min_relevance, category), 0)}

\* json.dumps(tags)
json_dumps(tags) == [json |-> tags]

\* a plain INSERT: the row is added next to the one already there
exec_insert_analysis_appending(an, item) ==
    an \cup {[article_id |-> item.article_id,
              relevance_score |-> item.relevance_score,
              category |-> item.category,
              tags |-> json_dumps(item.tags)]}

\* INSERT_ARTICLE_ANALYSIS executed for one analysis: INSERT OR REPLACE /
\* ON CONFLICT (article_id) DO UPDATE: the row of that article_id is replaced
exec_insert_analysis(an, item) ==
    {x \in an : x.article_id # item.article_id}
    \cup {[article_id |-> item.article_id,
           relevance_score |-> item.relevance_score,
           category |-> item.category,
           tags |-> json_dumps(item.tags)]}

\* FOREIGN KEY (article_id) REFERENCES articles(article_id): enforced by
\* PostgreSQL; SQLite leaves foreign keys unenforced unless the pragma is set,
\* and the code never sets it
fk_violation(db, tbl, item) ==
    db = "postgresql" /\ ~ \E r \in tbl : r.article_id = item.article_id

\* insert_article_analysis: every analysis is executed in one transaction,
\* committed after the loop. An SQLAlchemyError leaves the loop before the
\* commit, so nothing of the call is kept, and the count added so far is
\* returned.
RECURSIVE insert_analysis_loop(_, _, _, _, _)
insert_analysis_loop(db, tbl, an, list, count) ==
    IF Len(list) = 0 THEN [analyses |-> an, ret |-> count, committed |-> TRUE]
    ELSE IF fk_violation(db, tbl, list[1])
         THEN [analyses |-> an, ret |-> count, committed |-> FALSE]
    ELSE insert_analysis_loop(db, tbl, exec_insert_analysis(an, list[1]),
                              Tail(list), count + 1)

\* leaving `with ... connect()` without conn.commit() rolls the call back
rollback_uncommitted(an, res) ==
    IF res.committed THEN res ELSE [res EXCEPT !.analyses = an]

insert_article_analysis(db, tbl, an, list) ==
    rollback_uncommitted(an, insert_analysis_loop(db, tbl, an, list, 0))

\* ------------------------------------------------------------------ store inputs

MaxOps == 3
MaxList == 2

UrlX == <<"https", ":", "//", "a.com", "/", "x">>
UrlY == <<"https", ":", "//", "a.com", "/", "y">>
UrlZ == <<"https", ":", "//", "a.com", "/", "z">>

\* what each scraper passes for a post: the link to article x as that site
\* carries it, the title and content as that site shows them
LinkOf(src) ==
    CASE src = <<"reddit">> -> UrlX \o <<"?", "utm_source", "=", "tw">>
      [] src = <<"hackernews">> -> UrlX
      [] OTHER -> UrlX \o <<"?", "ref", "=", "1">>

TitleOf(src) ==
    CASE src = <<"reddit">> -> <<"T">>
      [] src = <<"hackernews">> -> <<"<b>", "T", "</b>", " ">>
      [] OTHER -> <<"T", " ", " ", "U">>

DateOf(src) ==
    CASE src = <<"hackernews">> -> <<"2025-06-02">>
      [] OTHER -> <<"2025-06-01">>

Sources == { <<"reddit">>, <<"hackernews">>, <<"rss">> }

RawRecord(src, id, u) ==
    [parser |-> src, source |-> src, id |-> id,
     subset |-> IF src = <<"rss">> THEN None ELSE <<"ai">>,
     thread_url |-> IF src = <<"rss">> THEN <<>> ELSE <<"thread">>,
     title |-> TitleOf(src),
     content |-> IF src = <<"reddit">> THEN <<>> ELSE <<"C">>,
     date |-> DateOf(src), article_url |-> u]

\* per source, its post 1 linking article x or article y, and reddit's post 1
\* once more with whitespace around the id
ValidRecords ==
    {RawRecord(src, <<"1">>, LinkOf(src)) : src \in Sources}
    \cup {RawRecord(src, <<"1">>, UrlY) : src \in Sources}
    \cup {RawRecord(<<"reddit">>, <<" ", "1">>, UrlX)}

BlankValues == { None, <<>>, <<" ">> }
BaseRecord == RawRecord(<<"reddit">>, <<"1">>, UrlX)

\* records insert_article must refuse: a required field blank, or a title
\* that is only markup
InvalidRecords ==
    {[BaseRecord EXCEPT ![f] = b] : f \in RequiredFields, b \in BlankValues}
    \cup {[BaseRecord EXCEPT !.title = t] : t \in {<<"<b>", "</b>">>, <<"<b>", " ", "</b>">>}}

InsertInputs == ValidRecords \cup InvalidRecords

\* analyses are written for the stored articles x and y and for an article z
\* that no row of articles carries
AnalysisItems ==
    {[article_id |-> generate_article_id(UrlX), relevance_score |-> sc,
      category |-> 1, tags |-> <<"ai", "ml", "llm">>] : sc \in {10, 90}}
    \cup {[article_id |-> generate_article_id(UrlY), relevance_score |-> 50,
           category |-> 2, tags |-> <<"ai", "ml", "llm">>],
          [article_id |-> generate_article_id(UrlZ), relevance_score |-> 50,
           category |-> 2, tags |-> <<"ai", "ml", "llm">>]}

AnalysisLists ==
    UNION {[1..n -> AnalysisItems] : n \in 0..MaxList}

\* ------------------------------------------------------------------ store actions

StoreInit ==
    /\ dbType \in {"sqlite", "postgresql"}
    /\ articles = {}
    /\ analyses = {}
    /\ ret = FALSE
    /\ call = [op |-> "create_database"]
    /\ attempted = {}
    /\ written = {}
    /\ nops = 0

InsertArticle ==
    /\ nops < MaxOps
    /\ \E a \in InsertInputs :
          \E res \in {insert_article(dbType, articles, a)} :
              /\ articles' = res.articles
              /\ ret' = res.ret
              /\ call' = [op |-> "insert_article", args |-> a]
              /\ attempted' =
                    IF insert_rejected(a) THEN attempted
                    ELSE attempted \cup {[source |-> strip(a.source), id |-> strip(a.id),
                                          title |-> clean_text(a.title),
                                          article_id |-> generate_article_id(a.article_url)]}
    /\ nops' = nops + 1
    /\ UNCHANGED <<dbType, analyses, written>>

\* the try / except of the two reads: when connect() or execute() raises an
\* SQLAlchemyError (the database is locked or unreachable, the server rejects
\* the statement) the error is printed and the empty dict is returned
read_outcome(failed, results) ==
    IF failed THEN {<<>>} ELSE results

GetUnanalysedArticles ==
    /\ nops < MaxOps
    /\ \E limit \in {0, 1}, failed \in BOOLEAN :
          \E res \in read_outcome(failed,
                                  get_unanalysed_articles(articles, analyses, limit)) :
              /\ ret' = res
              /\ call' = [op |-> "get_unanalysed_articles", limit |-> limit,
                          failed |-> failed]
    /\ nops' = nops + 1
    /\ UNCHANGED <<dbType, articles, analyses, attempted, written>>

\* get_recent_articles called with the clock at 24 or 72 (the stored dates are
\* 24 and 48)
GetRecentArticles ==
    /\ nops < MaxOps
    /\ \E now \in {24, 72}, hours_back \in {24, 48},
          min_relevance \in {50, 60}, category \in {1, 2}, failed \in BOOLEAN :
          \E res \in read_outcome(failed,
                                  get_recent_articles(articles, analyses, now, hours_back,
                                                      min_relevance, category)) :
              /\ ret' = res
              /\ call' = [op |-> "get_recent_articles", now |-> now,
                          hours_back |-> hours_back, failed |-> failed,
                          min_relevance |-> min_relevance, category |-> category]
    /\ nops' = nops + 1
    /\ UNCHANGED <<dbType, articles, analyses, attempted, written>>

\* the analysis a committed call leaves for each article_id it names: its
\* last item for that article_id
RECURSIVE LastWrites(_, _)
LastWrites(w, list) ==
    IF Len(list) = 0 THEN w
    ELSE LastWrites({x \in w : x.article_id # list[1].article_id} \cup {list[1]},
                    Tail(list))

InsertArticleAnalysis ==
    /\ nops < MaxOps
    /\ \E list \in AnalysisLists :
          \E res \in {insert_article_analysis(dbType, articles, analyses, list)} :
              /\ analyses' = res.analyses
              /\ ret' = res.ret
              /\ call' = [op |-> "insert_article_analysis", n |-> Len(list),
                          committed |-> res.committed,
                          replaced |-> {x \in analyses :
                                          \E i \in 1..Len(list) :
                                              list[i].article_id = x.article_id}]
              /\ written' = IF res.committed THEN LastWrites(written, list) ELSE written
    /\ nops' = nops + 1
    /\ UNCHANGED <<dbType, articles, attempted>>

\* ------------------------------------------------------------------ analysis.py

BATCH_SIZE == 20
MAX_CONSECUTIVE_FAILURES == 3

\* length of hashlib's md5 hexdigest, the form of every article_id
HexDigestLen == 32

\* A value handed to analyze_articles_batch as `articles`:
\*   [kind |-> "list", entries |-> <<t1, ...>>], each ti a tuple <<id, title, content>>,
\*   [kind |-> "dict", entries |-> d], d a result of get_unanalysed_articles.
\* len(articles)
py_len(x) == Len(x.entries)

\* what `for ... in enumerate(articles)` yields: the elements of a list, the
\* keys of a dict; each given with the number of values it unpacks into (a
\* tuple its length, a str its number of characters)
iter_items(x) ==
    [i \in 1..Len(x.entries) |->
        IF x.kind = "dict"
        THEN [value |-> x.entries[i].article_id, unpacks |-> HexDigestLen]
        ELSE [value |-> x.entries[i], unpacks |-> Len(x.entries[i])]]

\* `for i, (article_id, title, content) in enumerate(...)` raises ValueError
\* on an item that does not unpack into three values
unpack_raises(x) ==
    \E i \in 1..py_len(x) : iter_items(x)[i].unpacks # 3

\* create_scoring_prompt: the (title, content) lines of the prompt and n
create_scoring_prompt(x) ==
    IF unpack_raises(x) THEN [raises |-> TRUE, n |-> 0, lines |-> <<>>]
    ELSE [raises |-> FALSE, n |-> py_len(x),
          lines |-> [i \in 1..py_len(x) |->
                        [title |-> x.entries[i][2], content |-> x.entries[i][3]]]]

\* A JSON number of the response: [t |-> "int", v |-> n, half |-> FALSE] is the
\* int n, [t |-> "float", v |-> n, half |-> h] the float n (+ 0.5 when h);
\* [t |-> "none", ...] is a missing key (dict.get gives None), "str" a string.
\* isinstance(x, (int, float))
IsNumber(x) == x.t \in {"int", "float"}
\* isinstance(x, int)
IsInt(x) == x.t = "int"
\* lo <= x <= hi for integers lo, hi
Between(lo, x, hi) ==
    /\ lo <= x.v
    /\ x.v < hi \/ (x.v = hi /\ ~ x.half)
\* int(x): truncation toward zero
PyInt(x) ==
    IF x.v < 0 /\ x.half THEN x.v + 1 ELSE x.v

\* a tag that is not a str
NumberTag == <<"<7>">>

\* [tag.strip().lower() for tag in tags if tag.strip()]
clean_tags(elems) ==
    [i \in 1..Len(SelectSeq(elems, LAMBDA t : Len(strip(t)) > 0)) |->
        lower(strip(SelectSeq(elems, LAMBDA t : Len(strip(t)) > 0)[i]))]

\* the checks made on one item of the response, the range check of the score
\* left out
analysis_valid_any_score(a) ==
    /\ a.dict
    /\ IsNumber(a.score)
    /\ IsInt(a.category) /\ Between(1, a.category, 6)
    /\ a.tags.list
    /\ \A i \in 1..Len(a.tags.elems) : a.tags.elems[i] # NumberTag
    /\ 3 <= Len(a.tags.elems) /\ Len(a.tags.elems) <= 8

\* the checks analyze_articles_batch makes on one item of the response
analysis_valid(a) ==
    /\ a.dict
    /\ IsNumber(a.score) /\ Between(0, a.score, 100)
    /\ IsInt(a.category) /\ Between(1, a.category, 6)
    /\ a.tags.list
    /\ \A i \in 1..Len(a.tags.elems) : a.tags.elems[i] # NumberTag
    /\ 3 <= Len(a.tags.elems) /\ Len(a.tags.elems) <= 8

\* the dict appended to validated_analyses
validated_analysis(a) ==
    [score |-> PyInt(a.score), category |-> PyInt(a.category),
     tags |-> clean_tags(a.tags.elems)]

\* the validation loop: the first invalid item makes the function return []
RECURSIVE validate_loop(_, _)
validate_loop(items, validated_analyses) ==
    IF Len(items) = 0 THEN validated_analyses
    ELSE IF ~ analysis_valid(items[1]) THEN <<>>
    ELSE validate_loop(Tail(items), Append(validated_analyses, validated_analysis(items[1])))

\* the response handled without the comparison of lengths
parse_response_any_length(x, response) ==
    IF response.kind # "list" THEN <<>>
    ELSE validate_loop(response.items, <<>>)

\* what analyze_articles_batch makes of the service's response: [kind |->
\* "error"] is an exception from generate_content or json.loads, "object" JSON
\* that is not a list, "list" a JSON list of items
parse_response(x, response) ==
    IF response.kind # "list" \/ Len(response.items) # py_len(x) THEN <<>>
    ELSE validate_loop(response.items, <<>>)

\* analyze_articles_batch: setup_gemini raises out of the function when the
\* key is missing; every exception after it is caught and gives []
analyze_articles_batch(key, x, response) ==
    IF ~ key THEN [raised |-> TRUE, ret |-> <<>>, called |-> FALSE]
    ELSE IF create_scoring_prompt(x).raises
         THEN [raised |-> FALSE, ret |-> <<>>, called |-> FALSE]
    ELSE [raised |-> FALSE, ret |-> parse_response(x, response), called |-> TRUE]

\* ------------------------------------------------------------------ analysis inputs

MaxBatch == 2
\* the attempts one run may make
MaxAttempts == 4

IntVal(n) == [t |-> "int", v |-> n, half |-> FALSE]
FloatVal(n, h) == [t |-> "float", v |-> n, half |-> h]
MissingVal == [t |-> "none", v |-> 0, half |-> FALSE]
StrVal == [t |-> "str", v |-> 0, half |-> FALSE]

TagList(elems) == [list |-> TRUE, elems |-> elems]
GoodTags == TagList(<< <<"ai">>, <<" ", "ML", " ">>, <<"llm">> >>)

\* two items that meet the response contract
GoodA == [dict |-> TRUE, score |-> IntVal(92), category |-> IntVal(2), tags |-> GoodTags]
GoodB == [dict |-> TRUE, score |-> IntVal(10), category |-> IntVal(5), tags |-> GoodTags]

\* items that differ from GoodA in one field
ScoreValues ==
    {IntVal(0), IntVal(100), IntVal(150), IntVal(0 - 1), FloatVal(50, TRUE), FloatVal(100, FALSE),
     FloatVal(100, TRUE), FloatVal(0 - 1, TRUE), MissingVal, StrVal}
CategoryValues == {IntVal(1), IntVal(6), IntVal(7), IntVal(0), FloatVal(2, FALSE), MissingVal}
TagsValues ==
    {TagList(<< <<"a">>, <<"b">>, <<"c">>, <<"d">>, <<"e">>, <<"f">>, <<"g">>, <<"h">> >>),
     TagList(<< <<"a">>, <<"b">>, <<"c">>, <<"d">>, <<"e">>, <<"f">>, <<"g">>, <<"h">>, <<"i">> >>),
     TagList(<< <<"ai">>, <<"llm">> >>),
     TagList(<< <<"ai">>, <<"llm">>, <<" ">> >>),
     TagList(<< <<>>, <<" ">>, <<" ", " ">> >>),
     TagList(<< <<"ai">>, <<"llm">>, NumberTag >>),
     TagList(<<>>),
     [list |-> FALSE, elems |-> <<>>]}
ResponseItems ==
    {GoodA, GoodB, [GoodA EXCEPT !.dict = FALSE]}
    \cup {[GoodA EXCEPT !.score = v] : v \in ScoreValues}
    \cup {[GoodA EXCEPT !.category = v] : v \in CategoryValues}
    \cup {[GoodA EXCEPT !.tags = v] : v \in TagsValues}

\* the responses the service may give for a batch of n articles: an error, a
\* JSON object, or a list of up to n + 1 items that meet the contract except
\* for at most one of them
Responses(n) ==
    {[kind |-> "error", items |-> <<>>], [kind |-> "object", items |-> <<>>]}
    \cup {[kind |-> "list", items |-> l] :
            l \in UNION {[1..m -> {GoodA, GoodB}] : m \in 0..(n + 1)}}
    \cup UNION {{[kind |-> "list",
                   items |-> [j \in 1..m |-> IF j = i THEN it ELSE GoodA]] :
                     i \in 1..m, it \in ResponseItems} : m \in 1..(n + 1)}
NoResponse == [kind |-> "none", items |-> <<>>]

\* batches of the declared type list[tuple[str, str, str]]
BatchTuples ==
    << <<generate_article_id(UrlX), <<"T">>, <<"C">> >>,
       <<generate_article_id(UrlY), <<"T">>, <<>> >>,
       <<generate_article_id(UrlZ), <<"U">>, <<"C">> >> >>
TypedBatches ==
    {[kind |-> "list", entries |-> SubSeq(BatchTuples, 1, n)] : n \in 0..MaxBatch}

\* the stores a run may start on: the table left by inserting the first n of
\* three records (the third links the article of the first)
RunRecords ==
    << RawRecord(<<"reddit">>, <<"1">>, LinkOf(<<"reddit">>)),
       RawRecord(<<"hackernews">>, <<"1">>, UrlY),
       RawRecord(<<"rss">>, <<"1">>, LinkOf(<<"rss">>)) >>
RECURSIVE insert_all(_, _, _)
insert_all(db, tbl, recs) ==
    IF Len(recs) = 0 THEN tbl
    ELSE insert_all(db, insert_article(db, tbl, recs[1]).articles, Tail(recs))
RunStores(db) == {insert_all(db, {}, SubSeq(RunRecords, 1, n)) : n \in 0..Len(RunRecords)}

\* ------------------------------------------------------------------ analysis actions

RunInit ==
    /\ dbType \in {"sqlite", "postgresql"}
    /\ articles \in RunStores(dbType)
    /\ analyses \in {{}, exec_insert_analysis({}, [article_id |-> generate_article_id(UrlX),
                                                    relevance_score |-> 50, category |-> 2,
                                                    tags |-> <<"ai", "ml", "llm">>])}
    /\ ret = <<>>
    /\ call = [op |-> "create_database"]
    /\ attempted = {}
    /\ written = {}
    /\ nops = 0
    /\ apiKey \in BOOLEAN
    /\ pc = "idle"
    /\ consecutive_failures = 0
    /\ total_analyzed = 0
    /\ unanalysed = <<>>
    /\ service_calls = 0
    /\ pause = 0
    /\ attempts = 0
    /\ sleeps = 0
    /\ faulted = FALSE

\* what is recorded of a call of analyze_articles_batch
analyze_call(x, response, res) ==
    [op |-> "analyze_articles_batch", articles |-> x,
     response |-> IF res.called THEN response ELSE NoResponse,
     called |-> res.called, raised |-> res.raised]

\* analyze_articles_batch called with a batch of its declared type, as the
\* first call made
AnalyzeArticlesBatch ==
    /\ pc = "idle"
    /\ call.op = "create_database"
    /\ \E x \in TypedBatches :
          \E response \in Responses(py_len(x)) :
              \E res \in {analyze_articles_batch(apiKey, x, response)} :
                  /\ ret' = res.ret
                  /\ call' = analyze_call(x, response, res)
    /\ UNCHANGED <<dbType, articles, analyses, attempted, written, nops, runVars>>

\* run_article_analysis up to the loop
RunStart ==
    /\ pc = "idle"
    /\ pc' = "fetch"
    /\ consecutive_failures' = 0
    /\ total_analyzed' = 0
    /\ call' = [op |-> "run_article_analysis"]
    /\ ret' = <<>>
    /\ UNCHANGED <<dbType, articles, analyses, attempted, written, nops,
                   apiKey, unanalysed, service_calls, pause, attempts, sleeps,
                   faulted>>

\* the loop test and get_unanalysed_articles(BATCH_SIZE), which gives the
\* empty dict when the store raises
RunFetch ==
    /\ pc = "fetch"
    /\ IF consecutive_failures < MAX_CONSECUTIVE_FAILURES
       THEN \E failed \in BOOLEAN :
            \E res \in read_outcome(failed,
                                    get_unanalysed_articles(articles, analyses, BATCH_SIZE)) :
               /\ unanalysed' = res
               /\ ret' = res
               /\ call' = [op |-> "get_unanalysed_articles", limit |-> BATCH_SIZE,
                           failed |-> failed]
               /\ pc' = IF Len(res) = 0 THEN "stats" ELSE "analyze"
               /\ faulted' = (faulted \/ failed)
       ELSE /\ pc' = "stats"
            /\ UNCHANGED <<unanalysed, ret, call, faulted>>
    /\ UNCHANGED <<dbType, articles, analyses, attempted, written, nops,
                   apiKey, consecutive_failures, total_analyzed, service_calls, pause,
                   attempts, sleeps>>

\* analysis_data: the i-th item of the batch paired with analyses[i]
analysis_data(x, result) ==
    [i \in 1..SetMin({py_len(x), Len(result)}) |->
        [article_id |-> IF x.kind = "dict" THEN iter_items(x)[i].value
                        ELSE iter_items(x)[i].value[1],
         relevance_score |-> result[i].score,
         category |-> result[i].category,
         tags |-> result[i].tags]]

\* a failed attempt counted only when it is the third made on the batch,
\* with the wait between the attempts
batch_failed_after_three_attempts(cf, att, p, s) ==
    IF att % 3 # 0
    THEN [consecutive_failures |-> cf, pause |-> 5, sleeps |-> s + 1]
    ELSE [consecutive_failures |-> cf + 1,
          pause |-> IF cf + 1 < MAX_CONSECUTIVE_FAILURES THEN 5 ELSE p,
          sleeps |-> IF cf + 1 < MAX_CONSECUTIVE_FAILURES THEN s + 1 ELSE s]

\* a failed attempt that is not counted
batch_failed_uncounted(cf, att, p, s) ==
    [consecutive_failures |-> cf, pause |-> 5, sleeps |-> s + 1]

\* a failed attempt counted, the next one made without waiting
batch_failed_without_wait(cf, att, p, s) ==
    [consecutive_failures |-> cf + 1, pause |-> p, sleeps |-> s]

\* `if not analyses:` the failure is counted, and time.sleep(5) is called
\* when the loop will go on; att is the number of attempts made so far, p and
\* s the last sleep and the number of sleeps so far
batch_failed(cf, att, p, s) ==
    [consecutive_failures |-> cf + 1,
     pause |-> IF cf + 1 < MAX_CONSECUTIVE_FAILURES THEN 5 ELSE p,
     sleeps |-> IF cf + 1 < MAX_CONSECUTIVE_FAILURES THEN s + 1 ELSE s]

\* the rest of an iteration after analyze_articles_batch returned `result`:
\* the failure branch, or the pairing loop, insert_article_analysis, the
\* examples (a slice of the batch, which a dict does not support) and the pause
RunIteration(x, result) ==
    IF Len(result) = 0
    THEN \E f \in {batch_failed(consecutive_failures, attempts + 1, pause, sleeps)} :
            /\ consecutive_failures' = f.consecutive_failures
            /\ pause' = f.pause
            /\ sleeps' = f.sleeps
            /\ pc' = "fetch"
            /\ UNCHANGED <<analyses, total_analyzed>>
    ELSE IF unpack_raises(x)
    THEN /\ consecutive_failures' = 0
         /\ pc' = "raised"
         /\ UNCHANGED <<analyses, total_analyzed, pause, sleeps>>
    ELSE \E ins \in {insert_article_analysis(dbType, articles, analyses,
                                             analysis_data(x, result))} :
            /\ consecutive_failures' = 0
            /\ analyses' = ins.analyses
            /\ total_analyzed' = total_analyzed + ins.ret
            /\ pc' = IF x.kind = "dict" THEN "raised" ELSE "fetch"
            /\ pause' = IF x.kind = "dict" THEN pause ELSE 1
            /\ sleeps' = IF x.kind = "dict" THEN sleeps ELSE sleeps + 1

\* analyze_articles_batch(unanalysed) and the rest of the iteration
RunAnalyze ==
    /\ pc = "analyze"
    /\ attempts < MaxAttempts
    /\ attempts' = attempts + 1
    /\ \E response \in Responses(Len(unanalysed)) :
          \E res \in {analyze_articles_batch(apiKey, [kind |-> "dict", entries |-> unanalysed],
                                             response)} :
              /\ ret' = res.ret
              /\ call' = analyze_call([kind |-> "dict", entries |-> unanalysed], response, res)
              /\ service_calls' = service_calls + (IF res.called THEN 1 ELSE 0)
              /\ faulted' = (faulted \/ Len(parse_response([kind |-> "dict",
                                                             entries |-> unanalysed],
                                                            response)) = 0)
              /\ IF res.raised
                 THEN /\ pc' = "raised"
                      /\ UNCHANGED <<analyses, consecutive_failures, total_analyzed,
                                     pause, sleeps>>
                 ELSE RunIteration([kind |-> "dict", entries |-> unanalysed], res.ret)
    /\ UNCHANGED <<dbType, articles, attempted, written, nops, apiKey, unanalysed>>

\* after the loop: the final statistics (the number of articles reported as
\* remaining) and the return without a value
RunStats ==
    /\ pc = "stats"
    /\ \E failed1 \in BOOLEAN, failed2 \in BOOLEAN :
          \E remaining \in read_outcome(failed1,
                                        get_unanalysed_articles(articles, analyses, 1)) :
              \E all \in read_outcome(failed2,
                                      get_unanalysed_articles(articles, analyses, 0)) :
                  /\ call' = [op |-> "final_stats",
                              remaining |-> IF Len(remaining) = 0 THEN 0 ELSE Len(all)]
                  /\ faulted' = (faulted \/ failed1 \/ failed2)
    /\ ret' = <<>>
    /\ pc' = "done"
    /\ UNCHANGED <<dbType, articles, analyses, attempted, written, nops,
                   apiKey, consecutive_failures, total_analyzed, unanalysed,
                   service_calls, pause, attempts, sleeps>>

\* ------------------------------------------------------------------ cli.py

VALID_LANGUAGES == {"en", "fr"}
MIN_HOURS_BACK == 1
MAX_HOURS_BACK == 168
MIN_RELEVANCE_SCORE == 0
MAX_RELEVANCE_SCORE == 100

\* the validators: TRUE when they raise ValueError
validate_hours_back(hours) ==
    ~ (MIN_HOURS_BACK <= hours /\ hours <= MAX_HOURS_BACK)

validate_relevance_score(score) ==
    ~ (MIN_RELEVANCE_SCORE <= score /\ score <= MAX_RELEVANCE_SCORE)

validate_language(language) ==
    language \notin VALID_LANGUAGES

\* a call raises TypeError when the number of positional arguments is not the
\* number of parameters of the function
arity_raises(args, nparams) == Len(args) # nparams

\* def run_summary_generator(hours_back, min_relevance_score)
run_summary_generator_params == 2
\* def get_recent_articles(hours_back, min_relevance_score, category)
get_recent_articles_params == 3

\* what a run leaves: whether it raised, the side effects it made, the digest
\* file it wrote
NoDocument == [written |-> FALSE, sections |-> {}, placeholders |-> {}]
Outcome(raised, eff) == [raised |-> raised, effects |-> eff, document |-> NoDocument]

\* run_reddit_scraper: create_database(), then setup_reddit(), which raises
\* ValueError when a credential is missing, then the fetch of every subreddit
\* and the inserts; any exception is printed and raised again
run_reddit_scraper(e, fetch_raises, found) ==
    IF ~ e.redditCred THEN Outcome(TRUE, {"create_database"})
    ELSE IF fetch_raises THEN Outcome(TRUE, {"create_database", "external"})
    ELSE Outcome(FALSE, {"create_database", "external"}
                        \cup (IF found THEN {"insert"} ELSE {}))

\* run_hackernews_scraper / run_rss_scraper: create_database(), the fetch,
\* the inserts; any exception is printed and raised again
run_feed_scraper(e, fetch_raises, found) ==
    IF fetch_raises THEN Outcome(TRUE, {"create_database", "external"})
    ELSE Outcome(FALSE, {"create_database", "external"}
                        \cup (IF found THEN {"insert"} ELSE {}))

\* run_article_analysis: create_database(), get_unanalysed_articles, and for a
\* non-empty batch analyze_articles_batch, whose setup_gemini() raises
\* ValueError when GEMINI_API_KEY is missing; with the key every batch fails
\* before the service is called and the run returns after three failures
run_article_analysis(e) ==
    Outcome(e.pending /\ ~ e.geminiKey, {"create_database"})

\* the body of run_summary_generator: create_database(), then
\* get_recent_articles(hours_back, min_relevance_score), one summary of all
\* articles, the file written
summary_body(e, a) ==
    IF arity_raises(<<a.hb, a.score>>, get_recent_articles_params)
    THEN Outcome(TRUE, {"create_database"})
    ELSE [raised |-> FALSE, effects |-> {"create_database", "external"},
          document |-> [written |-> e.matching # {}, sections |-> {},
                        placeholders |-> {}]]

\* handle_summary's call run_summary_generator(args.hb, args.score, args.language)
run_summary_generator(e, a) ==
    IF arity_raises(<<a.hb, a.score, a.language>>, run_summary_generator_params)
    THEN Outcome(TRUE, {})
    ELSE summary_body(e, a)

\* the entries of `scrapers` in handle_all
scrapers == <<"Reddit", "HackerNews", "RSS", "Analysis">>

\* what the function of a command or of an entry of scrapers does
run_function(name, e, a, fetch_raises, found) ==
    CASE name \in {"reddit", "Reddit"} -> run_reddit_scraper(e, fetch_raises, found)
      [] name \in {"hackernews", "HackerNews", "rss", "RSS"} ->
            run_feed_scraper(e, fetch_raises, found)
      [] name \in {"analysis", "Analysis"} -> run_article_analysis(e)
      [] OTHER -> run_summary_generator(e, a)

\* the first lines of the handler of a command: TRUE when one of them raises
handler_validation_raises(cmd, e, a) ==
    CASE cmd \in {"reddit", "hackernews", "rss", "all"} ->
            validate_hours_back(a.hb) \/ ~ e.configOk
      [] cmd = "summary" ->
            \/ validate_hours_back(a.hb)
            \/ validate_relevance_score(a.score)
            \/ validate_language(a.language)
      [] OTHER -> FALSE

\* the loop body of handle_all with no try / except around func()
after_stage_uncaught(raised, name, failed) ==
    IF raised THEN [failed_scrapers |-> failed, cpc |-> "raised"]
    ELSE [failed_scrapers |-> failed, cpc |-> "run"]

\* the loop body of handle_all after func(): an exception is printed, the name
\* appended to failed_scrapers, and the loop goes on
after_stage(raised, name, failed) ==
    IF raised THEN [failed_scrapers |-> Append(failed, name), cpc |-> "run"]
    ELSE [failed_scrapers |-> failed, cpc |-> "run"]

\* ------------------------------------------------------------------ cli actions

Commands == {"reddit", "hackernews", "rss", "all", "analysis", "summary"}

CliInit ==
    /\ command \in Commands
    /\ cliArgs \in [hb : {0, 1, 168, 169}, score : {-1, 50, 101}, language : {"en", "de"}]
    /\ env \in [redditCred : BOOLEAN, geminiKey : BOOLEAN, configOk : BOOLEAN,
                pending : BOOLEAN, matching : {{}, {1}, {1, 2}}, failing : {{}, {1}}]
    /\ cpc = "parse"
    /\ stage = 1
    /\ ran = <<>>
    /\ failed_scrapers = <<>>
    /\ effects = {}
    /\ report = [printed |-> FALSE, failures |-> <<>>]
    /\ document = NoDocument
    /\ exit_code = -1

\* main: parser.parse_args(); --language has choices=list(VALID_LANGUAGES), so
\* argparse ends the process with status 2 on another language
MainParse ==
    /\ cpc = "parse"
    /\ IF command = "summary" /\ cliArgs.language \notin VALID_LANGUAGES
       THEN cpc' = "exited" /\ exit_code' = 2
       ELSE cpc' = "handler" /\ exit_code' = exit_code
    /\ UNCHANGED <<command, cliArgs, env, stage, ran, failed_scrapers, effects,
                   report, document>>

\* args.func(args): the validation at the top of the handler
HandlerValidate ==
    /\ cpc = "handler"
    /\ cpc' = IF handler_validation_raises(command, env, cliArgs) THEN "raised" ELSE "run"
    /\ UNCHANGED <<command, cliArgs, env, stage, ran, failed_scrapers, effects,
                   report, document, exit_code>>

\* handle_reddit, handle_hackernews, handle_rss, handle_analysis,
\* handle_summary after the validation: the run, its exception raised again
HandlerRun ==
    /\ cpc = "run"
    /\ command # "all"
    /\ \E fetch_raises \in BOOLEAN, found \in BOOLEAN :
          \E res \in {run_function(command, env, cliArgs, fetch_raises, found)} :
              /\ effects' = effects \cup res.effects
              /\ document' = res.document
              /\ cpc' = IF res.raised THEN "raised" ELSE "returned"
    /\ UNCHANGED <<command, cliArgs, env, stage, ran, failed_scrapers, report, exit_code>>

\* handle_all: one turn of `for name, func in scrapers`
HandleAllStage ==
    /\ cpc = "run"
    /\ command = "all"
    /\ stage <= Len(scrapers)
    /\ \E fetch_raises \in BOOLEAN, found \in BOOLEAN :
          \E res \in {run_function(scrapers[stage], env, cliArgs, fetch_raises, found)} :
              \E nxt \in {after_stage(res.raised, scrapers[stage], failed_scrapers)} :
                  /\ effects' = effects \cup res.effects
                  /\ env' = [env EXCEPT !.pending = @ \/ "insert" \in res.effects]
                  /\ failed_scrapers' = nxt.failed_scrapers
                  /\ cpc' = nxt.cpc
              /\ ran' = Append(ran, [name |-> scrapers[stage], raised |-> res.raised])
    /\ stage' = stage + 1
    /\ UNCHANGED <<command, cliArgs, report, document, exit_code>>

\* handle_all after the loop: "Completed with failures in: ..." or "All
\* scripts completed successfully!"
HandleAllReport ==
    /\ cpc = "run"
    /\ command = "all"
    /\ stage > Len(scrapers)
    /\ report' = [printed |-> TRUE, failures |-> failed_scrapers]
    /\ cpc' = "returned"
    /\ UNCHANGED <<command, cliArgs, env, stage, ran, failed_scrapers, effects,
                   document, exit_code>>

\* main: an exception out of the handler is printed and the process ends with
\* exit(1); a handler that returns ends it with status 0
MainExit ==
    /\ cpc \in {"raised", "returned"}
    /\ exit_code' = IF cpc = "raised" THEN 1 ELSE 0
    /\ cpc' = "exited"
    /\ UNCHANGED <<command, cliArgs, env, stage, ran, failed_scrapers, effects,
                   report, document>>

\* ------------------------------------------------------------------ summary.py

\* re.findall(r"\[([^\]]+)\]\(([^)]+)\)", text) tried at position i of the
\* text: "[", one or more tokens up to the first "]", "(" right after it, one
\* or more tokens up to the first ")"; close and paren are the positions of
\* that "]" and that ")" (below i when there is none)
link_at(s, i, close, paren) ==
    IF /\ s[i] = "["
       /\ close > i + 1
       /\ close < Len(s)
       /\ s[close + 1] = "("
       /\ paren > close + 2
    THEN [ok |-> TRUE, text |-> SubSeq(s, i + 1, close - 1),
          url |-> SubSeq(s, close + 2, paren - 1), end |-> paren]
    ELSE [ok |-> FALSE, text |-> <<>>, url |-> <<>>, end |-> i]

\* position of the first token t of s after position i, i - 1 when absent
find_after(s, i, t) ==
    i - 1 + find(SubSeq(s, i, Len(s)), t)

\* the matches of the pattern in s from position i on, left to right and not
\* overlapping
RECURSIVE markdown_links(_, _)
markdown_links(s, i) ==
    IF i > Len(s) THEN <<>>
    ELSE IF link_at(s, i, find_after(s, i + 1, "]"),
                    find_after(s, find_after(s, i + 1, "]") + 1, ")")).ok
    THEN <<link_at(s, i, find_after(s, i + 1, "]"),
                   find_after(s, find_after(s, i + 1, "]") + 1, ")"))>>
         \o markdown_links(s, link_at(s, i, find_after(s, i + 1, "]"),
                                      find_after(s, find_after(s, i + 1, "]") + 1, ")")).end + 1)
    ELSE markdown_links(s, i + 1)

\* the sources of an article that have a thread_url and the given parser
threads_of(sources, parser) ==
    SelectSeq(sources, LAMBDA r : ~ Falsy(r.thread_url) /\ r.parser = parser)

\* sources_info of an article: its reddit threads with their subset and its
\* hackernews threads
sources_info(sources) ==
    [reddit |-> [k \in 1..Len(threads_of(sources, <<"reddit">>)) |->
                    [url |-> threads_of(sources, <<"reddit">>)[k].thread_url,
                     subset |-> threads_of(sources, <<"reddit">>)[k].subset]],
     hackernews |-> [k \in 1..Len(threads_of(sources, <<"hackernews">>)) |->
                        threads_of(sources, <<"hackernews">>)[k].thread_url]]

\* index of the first article of the dict whose article_url is u, 0 if none
first_article_with_url(d, u) ==
    IF \E i \in 1..Len(d) : d[i].article_url = u
    THEN SetMin({i \in 1..Len(d) : d[i].article_url = u})
    ELSE 0

\* the loop over the links: the first article with the link's URL gives an
\* entry when it has a reddit or hackernews thread
RECURSIVE referenced_loop(_, _, _)
referenced_loop(links, d, acc) ==
    IF Len(links) = 0 THEN acc
    ELSE IF first_article_with_url(d, links[1].url) = 0
    THEN referenced_loop(Tail(links), d, acc)
    ELSE IF /\ Len(sources_info(d[first_article_with_url(d, links[1].url)].sources).reddit) = 0
            /\ Len(sources_info(d[first_article_with_url(d, links[1].url)].sources).hackernews) = 0
    THEN referenced_loop(Tail(links), d, acc)
    ELSE referenced_loop(Tail(links), d,
            Append(acc, [title |-> links[1].text, url |-> links[1].url,
                         sources |-> sources_info(
                             d[first_article_with_url(d, links[1].url)].sources)]))

\* the articles of the dict that have a thread
with_threads(d) ==
    SelectSeq(d, LAMBDA a : Len(sources_info(a.sources).reddit)
                            + Len(sources_info(a.sources).hackernews) > 0)

\* every article of the dict that has a thread, linked in the text or not
extract_referenced_articles_unlinked(text, d) ==
    [k \in 1..Len(with_threads(d)) |->
        [title |-> with_threads(d)[k].sources[1].title,
         url |-> with_threads(d)[k].article_url,
         sources |-> sources_info(with_threads(d)[k].sources)]]

extract_referenced_articles(text, d) ==
    referenced_loop(markdown_links(text, 1), d, <<>>)

\* the lines of one article of the section
article_lines(article) ==
    << <<"- ", "[">> \o article.title \o <<"]", "(">> \o article.url \o <<")">> >>
    \o [k \in 1..Len(article.sources.reddit) |->
            <<"  - ", "[">>
            \o (IF Falsy(article.sources.reddit[k].subset) THEN <<"Reddit">>
                ELSE <<"r/">> \o article.sources.reddit[k].subset)
            \o <<"]", "(">> \o article.sources.reddit[k].url \o <<")">>]
    \o [k \in 1..Len(article.sources.hackernews) |->
            <<"  - ", "[", "HackerNews Discussion", "]", "(">>
            \o article.sources.hackernews[k] \o <<")">>]
    \o << <<>> >>

RECURSIVE section_lines(_)
section_lines(referenced) ==
    IF Len(referenced) = 0 THEN <<>>
    ELSE article_lines(referenced[1]) \o section_lines(Tail(referenced))

\* build_discussion_threads_section: the lines that "\n".join puts together,
\* none when nothing is referenced
build_discussion_threads_section(referenced) ==
    IF Len(referenced) = 0 THEN <<>>
    ELSE << <<"## Discussion Threads">>, <<>> >> \o section_lines(referenced)

\* ------------------------------------------------------------------ digest inputs

\* the pieces a drawn summary text is made of
MaxSegments == 2

\* a fourth article
UrlQ == <<"https", ":", "//", "a.com", "/", "q">>

\* the stored row of a record of the given source and URL, as
\* get_recent_articles selects it
StoredRow(src, u, subset, thread) ==
    insert_params([RawRecord(src, <<"1">>, u) EXCEPT !.subset = subset,
                                                    !.thread_url = thread])

\* the rows the drawn store contents are made of: a reddit thread with and
\* without a subreddit, a hackernews thread and a feed entry without thread
DigestRows ==
    {StoredRow(<<"reddit">>, UrlX, <<"ai">>, <<"rx">>),
     StoredRow(<<"hackernews">>, UrlY, <<>>, <<"hy">>),
     StoredRow(<<"rss">>, UrlZ, <<>>, <<>>),
     StoredRow(<<"reddit">>, UrlQ, <<>>, <<"rq">>)}

\* what get_recent_articles returns for the rows q; the functions are reached
\* with at least one article
DigestDicts ==
    {group_full_rows(q, <<>>) :
        q \in {r \in UNION {[1..n -> DigestRows] : n \in 1..Cardinality(DigestRows)} :
                  \A i, j \in 1..Len(r) : i # j => r[i] # r[j]}}

\* a markdown link to u
Link(u) == <<"[", "T", "]", "(">> \o u \o <<")">>

\* the pieces of text: links to the stored articles and to an article that is
\* not stored, a URL mentioned without a link, and two near-links the pattern
\* does not match
Segments ==
    {Link(UrlX), Link(UrlY), Link(UrlZ),
     Link(<<"https", ":", "//", "b.com", "/">>),
     <<"see ">> \o UrlQ,
     <<"[", "T", "]", " ", "(">> \o UrlX \o <<")">>,
     <<"[", "]", "(">> \o UrlY \o <<")">>}

RECURSIVE concat(_)
concat(parts) ==
    IF Len(parts) = 0 THEN <<>> ELSE parts[1] \o concat(Tail(parts))

SummaryTexts ==
    {concat(parts) : parts \in UNION {[1..n -> Segments] : n \in 0..MaxSegments}}

DigestInit ==
    /\ summary_text \in SummaryTexts
    /\ articles_dict \in DigestDicts
    /\ referenced_articles = <<>>
    /\ discussion_section = <<>>
    /\ dpc = "start"

\* referenced_articles = extract_referenced_articles(summary, articles_dict)
DigestExtract ==
    /\ dpc = "start"
    /\ referenced_articles' = extract_referenced_articles(summary_text, articles_dict)
    /\ dpc' = "extracted"
    /\ UNCHANGED <<summary_text, articles_dict, discussion_section>>

\* discussion_section = build_discussion_threads_section(referenced_articles)
DigestBuild ==
    /\ dpc = "extracted"
    /\ discussion_section' = build_discussion_threads_section(referenced_articles)
    /\ dpc' = "built"
    /\ UNCHANGED <<summary_text, articles_dict, referenced_articles>>

\* ------------------------------------------------------------------ concurrent inserts

\* the two ingest runs
Runs == {1, 2}

\* the records the two calls carry, all with the key (hackernews, 1): the
\* post linking article x or article y, and the post with a blank title
ConcRecords ==
    {RawRecord(<<"hackernews">>, <<"1">>, UrlX),
     RawRecord(<<"hackernews">>, <<"1">>, UrlY),
     [RawRecord(<<"hackernews">>, <<"1">>, UrlX) EXCEPT !.title = <<" ">>]}

\* the tables the calls may find: empty, article x stored for reddit's post 1,
\* or the key stored already
ConcStores ==
    {{},
     {insert_params(RawRecord(<<"reddit">>, <<"1">>, UrlX))},
     {insert_params(RawRecord(<<"hackernews">>, <<"1">>, UrlY))}}

NoInsert == [articles |-> {}, rowcount |-> 0, raised |-> FALSE]

ConcInit ==
    /\ dbType \in {"sqlite", "postgresql"}
    /\ articles \in ConcStores
    /\ analyses = {}
    /\ ret = FALSE
    /\ call = [op |-> "create_database"]
    /\ attempted = {}
    /\ written = {}
    /\ nops = 0
    /\ irec \in [Runs -> ConcRecords]
    /\ ipc = [p \in Runs |-> "call"]
    /\ iret = [p \in Runs |-> FALSE]
    /\ pend = [p \in Runs |-> NoInsert]
    /\ lock = 0
    /\ before = articles

\* insert_article of run p up to its early returns
ConcReject(p) ==
    /\ ipc[p] = "call"
    /\ insert_rejected(irec[p])
    /\ ipc' = [ipc EXCEPT ![p] = "returned"]
    /\ iret' = [iret EXCEPT ![p] = FALSE]
    /\ UNCHANGED <<storeVars, irec, pend, lock, before>>

\* conn.execute(INSERT_ARTICLE) of run p: the statement runs when no other
\* transaction has written the table without committing (SQLite's write lock;
\* on PostgreSQL the INSERT waits for the transaction that inserted the same
\* key); an IntegrityError ends the call with False
ConcExecute(p) ==
    /\ ipc[p] = "call"
    /\ ~ insert_rejected(irec[p])
    /\ lock = 0
    /\ \E res \in {exec_insert_article(dbType, articles, insert_params(irec[p]))} :
          IF res.raised
          THEN /\ ipc' = [ipc EXCEPT ![p] = "returned"]
               /\ iret' = [iret EXCEPT ![p] = insert_outcome(articles, res).ret]
               /\ UNCHANGED <<pend, lock>>
          ELSE /\ ipc' = [ipc EXCEPT ![p] = "executed"]
               /\ pend' = [pend EXCEPT ![p] = res]
               /\ lock' = p
               /\ UNCHANGED iret
    /\ UNCHANGED <<storeVars, irec, before>>

\* the INSERT of run p gives up waiting for SQLite's write lock:
\* OperationalError (database is locked), the call returns False
ConcLocked(p) ==
    /\ ipc[p] = "call"
    /\ ~ insert_rejected(irec[p])
    /\ lock \notin {0, p}
    /\ dbType = "sqlite"
    /\ ipc' = [ipc EXCEPT ![p] = "returned"]
    /\ iret' = [iret EXCEPT ![p] = FALSE]
    /\ UNCHANGED <<storeVars, irec, pend, lock, before>>

\* conn.commit() and `return result.rowcount > 0` of run p
ConcCommit(p) ==
    /\ ipc[p] = "executed"
    /\ articles' = insert_outcome(articles, pend[p]).articles
    /\ iret' = [iret EXCEPT ![p] = insert_outcome(articles, pend[p]).ret]
    /\ ipc' = [ipc EXCEPT ![p] = "returned"]
    /\ lock' = 0
    /\ UNCHANGED <<dbType, analyses, ret, call, attempted, written, nops,
                   irec, pend, before>>

\* ------------------------------------------------------------------ idle parts

CliIdle ==
    /\ command = "idle"
    /\ cliArgs = [hb |-> 1, score |-> 0, language |-> "en"]
    /\ env = [redditCred |-> TRUE, geminiKey |-> TRUE, configOk |-> TRUE,
              pending |-> FALSE, matching |-> {}, failing |-> {}]
    /\ cpc = "idle"
    /\ stage = 1
    /\ ran = <<>>
    /\ failed_scrapers = <<>>
    /\ effects = {}
    /\ report = [printed |-> FALSE, failures |-> <<>>]
    /\ document = NoDocument
    /\ exit_code = -1

UrlIdle ==
    /\ uparts = [pre |-> <<>>, scheme |-> <<>>, host |-> <<>>, path |-> <<>>,
                 query |-> <<>>, fragment |-> <<>>]
    /\ url = <<>>
    /\ url2 = <<>>
    /\ uop = "idle"
    /\ id1 = <<>>
    /\ id2 = <<>>
    /\ valid = FALSE

RunIdle ==
    /\ apiKey = TRUE
    /\ pc = "idle"
    /\ consecutive_failures = 0
    /\ total_analyzed = 0
    /\ unanalysed = <<>>
    /\ service_calls = 0
    /\ pause = 0
    /\ attempts = 0
    /\ sleeps = 0
    /\ faulted = FALSE

DigestIdle ==
    /\ summary_text = <<>>
    /\ articles_dict = <<>>
    /\ referenced_articles = <<>>
    /\ discussion_section = <<>>
    /\ dpc = "idle"

ConcIdle ==
    /\ irec = <<>>
    /\ ipc = <<>>
    /\ iret = <<>>
    /\ pend = <<>>
    /\ lock = 0
    /\ before = {}

StoreIdle ==
    /\ dbType = "sqlite"
    /\ articles = {}
    /\ analyses = {}
    /\ ret = FALSE
    /\ call = [op |-> "idle"]
    /\ attempted = {}
    /\ written = {}
    /\ nops = 0

\* ------------------------------------------------------------------ specifications

\* the article store driven by its callers
Init == StoreInit /\ UrlIdle /\ RunIdle /\ CliIdle /\ DigestIdle /\ ConcIdle
Next ==
    \/ InsertArticle /\ UNCHANGED <<urlVars, runVars, cliVars, digestVars, concVars>>
    \/ GetUnanalysedArticles /\ UNCHANGED <<urlVars, runVars, cliVars, digestVars, concVars>>
    \/ GetRecentArticles /\ UNCHANGED <<urlVars, runVars, cliVars, digestVars, concVars>>
    \/ InsertArticleAnalysis /\ UNCHANGED <<urlVars, runVars, cliVars, digestVars, concVars>>
Spec == Init /\ [][Next]_vars

\* the URL functions applied to drawn URLs
InitUrl == UrlInit /\ StoreIdle /\ RunIdle /\ CliIdle /\ DigestIdle /\ ConcIdle
NextUrl ==
    \/ UrlGenerate /\ UNCHANGED <<storeVars, runVars, cliVars, digestVars, concVars>>
    \/ UrlAddTracking /\ UNCHANGED <<storeVars, runVars, cliVars, digestVars, concVars>>
    \/ UrlChangePath /\ UNCHANGED <<storeVars, runVars, cliVars, digestVars, concVars>>
    \/ UrlValidate /\ UNCHANGED <<storeVars, runVars, cliVars, digestVars, concVars>>
SpecUrl == InitUrl /\ [][NextUrl]_vars

\* the analysis engine: analyze_articles_batch called on typed batches, and
\* run_article_analysis run on a store
InitAnalysis == RunInit /\ UrlIdle /\ CliIdle /\ DigestIdle /\ ConcIdle
NextAnalysis ==
    \/ AnalyzeArticlesBatch /\ UNCHANGED <<urlVars, cliVars, digestVars, concVars>>
    \/ RunStart /\ UNCHANGED <<urlVars, cliVars, digestVars, concVars>>
    \/ RunFetch /\ UNCHANGED <<urlVars, cliVars, digestVars, concVars>>
    \/ RunAnalyze /\ UNCHANGED <<urlVars, cliVars, digestVars, concVars>>
    \/ RunStats /\ UNCHANGED <<urlVars, cliVars, digestVars, concVars>>
SpecAnalysis == InitAnalysis /\ [][NextAnalysis]_vars

\* the same with the run going on: run_article_analysis is sequential code,
\* so a step of it that can be taken is taken (each of these steps moves pc)
SpecAnalysisLive ==
    /\ SpecAnalysis
    /\ WF_pc(RunFetch /\ UNCHANGED <<urlVars, cliVars, digestVars, concVars>>)
    /\ WF_pc(RunAnalyze /\ UNCHANGED <<urlVars, cliVars, digestVars, concVars>>)
    /\ WF_pc(RunStats /\ UNCHANGED <<urlVars, cliVars, digestVars, concVars>>)

\* the command line: main run on drawn arguments and environments
InitCli == CliInit /\ UrlIdle /\ StoreIdle /\ RunIdle /\ DigestIdle /\ ConcIdle
NextCli ==
    \/ MainParse /\ UNCHANGED <<urlVars, storeVars, runVars, digestVars, concVars>>
    \/ HandlerValidate /\ UNCHANGED <<urlVars, storeVars, runVars, digestVars, concVars>>
    \/ HandlerRun /\ UNCHANGED <<urlVars, storeVars, runVars, digestVars, concVars>>
    \/ HandleAllStage /\ UNCHANGED <<urlVars, storeVars, runVars, digestVars, concVars>>
    \/ HandleAllReport /\ UNCHANGED <<urlVars, storeVars, runVars, digestVars, concVars>>
    \/ MainExit /\ UNCHANGED <<urlVars, storeVars, runVars, digestVars, concVars>>
SpecCli == InitCli /\ [][NextCli]_vars

\* the digest functions applied to a drawn summary text and drawn articles
InitDigest == DigestInit /\ UrlIdle /\ StoreIdle /\ RunIdle /\ CliIdle /\ ConcIdle
NextDigest ==
    \/ DigestExtract /\ UNCHANGED <<urlVars, storeVars, runVars, cliVars, concVars>>
    \/ DigestBuild /\ UNCHANGED <<urlVars, storeVars, runVars, cliVars, concVars>>
SpecDigest == InitDigest /\ [][NextDigest]_vars

\* two ingest runs calling insert_article with the same (source, id)
InitConcurrent == ConcInit /\ UrlIdle /\ RunIdle /\ CliIdle /\ DigestIdle
NextConcurrent ==
    \/ \E p \in Runs : ConcReject(p) /\ UNCHANGED <<urlVars, runVars, cliVars, digestVars>>
    \/ \E p \in Runs : ConcExecute(p) /\ UNCHANGED <<urlVars, runVars, cliVars, digestVars>>
    \/ \E p \in Runs : ConcLocked(p) /\ UNCHANGED <<urlVars, runVars, cliVars, digestVars>>
    \/ \E p \in Runs : ConcCommit(p) /\ UNCHANGED <<urlVars, runVars, cliVars, digestVars>>
SpecConcurrent == InitConcurrent /\ [][NextConcurrent]_vars

\* ------------------------------------------------------------------ properties of the store

\* C1: once three valid RawRecords of three different sources, each the first
\* record of its (source, id) key, have been inserted with URLs that normalize
\* to one article_id, all three are stored, and get_unanalysed_articles()
\* returns exactly one article for that article_id with three sources
C1_ThreeSourcesOneArticle ==
    \A aid \in {p.article_id : p \in attempted} :
        LET S == {p \in attempted :
                     /\ p.article_id = aid
                     /\ \A q \in attempted :
                           (q.source = p.source /\ q.id = p.id) => q = p}
        IN  (Cardinality({p.source : p \in S}) = 3
             /\ ~ \E x \in analyses : x.article_id = aid)
            => /\ \A p \in S : \E r \in articles :
                     r.source = p.source /\ r.id = p.id /\ r.article_id = aid
               /\ \A res \in get_unanalysed_articles(articles, analyses, 0) :
                     /\ Cardinality({i \in 1..Len(res) : res[i].article_id = aid}) = 1
                     /\ \A i \in 1..Len(res) :
                           res[i].article_id = aid => Len(res[i].sources) = 3

\* C2: an insert_article call for a RawRecord with all required fields present
\* whose (source, id) was already given to an earlier valid call returns
\* False, leaves exactly one stored row with that key, and leaves that row as
\* it was
C2_SecondInsertKeepsFirst ==
    [][(/\ call'.op = "insert_article"
        /\ missing_fields(call'.args) = {}
        /\ \E p \in attempted : /\ p.source = strip(call'.args.source)
                                /\ p.id = strip(call'.args.id))
       => /\ ret' = FALSE
          /\ Cardinality({r \in articles' : /\ r.source = strip(call'.args.source)
                                            /\ r.id = strip(call'.args.id)}) = 1
          /\ articles' = articles]_vars

C10_LatestAnalysisOnly ==
    /\ \A x, y \in analyses : x.article_id = y.article_id => x = y
    /\ analyses = {[article_id |-> w.article_id,
                    relevance_score |-> w.relevance_score,
                    category |-> w.category,
                    tags |-> json_dumps(w.tags)] : w \in written}

\* a committed call wrote an analysis for an article_id that already had one
C10_Witness ==
    /\ call.op = "insert_article_analysis"
    /\ call.committed
    /\ \E x \in call.replaced : x \notin analyses

\* ------------------------------------------------------------------ properties of the URL functions

\* C6: for every URL that urlparse parses without raising and every key k of
\* TRACKING_PARAMS, the URL with a query parameter k=v added gets the
\* article_id of the URL itself
C6_TrackingParamIgnored ==
    (uop = "tracked" /\ ~ urlparse(strip(lower(url))).raises
                     /\ UnicodeRaised \notin {id1, id2}) => id2 = id1

\* a URL that already carries a query got a tracking parameter added and kept
\* its article_id
C6_Witness ==
    /\ uop = "tracked"
    /\ id1 # UnicodeRaised
    /\ ~ urlparse(strip(lower(url))).raises
    /\ Len(uparts.query) > 0
    /\ url2 # url
    /\ id2 = id1

\* C6 as stated, for every URL: the URL with a tracking parameter added gets the
\* article_id of the URL itself
C6_EveryUrl ==
    uop = "tracked" => id2 = id1

\* C7: two URLs of the same scheme, host and query that urlparse parses
\* without raising and whose paths, as urlparse extracts them from the
\* lowercased and trimmed URLs, are distinct get different article_ids
C7_DistinctParsedPaths ==
    (/\ uop = "repathed"
     /\ ~ urlparse(strip(lower(url))).raises
     /\ ~ urlparse(strip(lower(url2))).raises
     /\ UnicodeRaised \notin {id1, id2}
     /\ urlparse(strip(lower(url))).path # urlparse(strip(lower(url2))).path)
    => id2 # id1

\* two URLs with a query that differ in their parsed paths got different ids
C7_Witness ==
    /\ uop = "repathed"
    /\ UnicodeRaised \notin {id1, id2}
    /\ Len(uparts.query) > 0
    /\ ~ urlparse(strip(lower(url))).raises
    /\ urlparse(strip(lower(url))).path # urlparse(strip(lower(url2))).path
    /\ id2 # id1

\* C7 as stated: two URLs of the same scheme, host and query whose paths are
\* distinct get different article_ids
C7_DistinctPaths ==
    uop = "repathed" => id2 # id1

\* C8: is_valid_webpage_url is False for a URL that does not start with
\* http:// or https://, False for a URL whose path ends in a blocklisted
\* extension, and True for every other URL
C8_FilterByPathExtension ==
    uop = "validated" =>
        (valid <=>
            /\ \/ startswith(url, <<"http", ":", "//">>)
               \/ startswith(url, <<"https", ":", "//">>)
            /\ ~ (/\ Len(uparts.path) > 0
                  /\ LowerTok(uparts.path[Len(uparts.path)]) \in excluded_extensions))

\* ------------------------------------------------------------------ properties of the analysis engine

\* C3: when the scoring response is a list whose length differs from the
\* number of articles of the batch, analyze_articles_batch returns an empty
\* result; and an iteration of run_article_analysis whose analysis came back
\* empty writes no analysis row and adds nothing to the total
C3_LengthMismatchRejected ==
    /\ [](( /\ call.op = "analyze_articles_batch"
            /\ call.called
            /\ call.response.kind = "list"
            /\ Len(call.response.items) # py_len(call.articles))
          => ret = <<>>)
    /\ [][(pc = "analyze" /\ ret' = <<>>)
          => (analyses' = analyses /\ total_analyzed' = total_analyzed)]_vars

\* a response of contract-meeting items, one fewer than the articles of the
\* batch, was turned down
C3_Witness ==
    /\ call.op = "analyze_articles_batch"
    /\ call.called
    /\ call.response.kind = "list"
    /\ py_len(call.articles) >= 2
    /\ Len(call.response.items) = py_len(call.articles) - 1
    /\ \A i \in 1..Len(call.response.items) : call.response.items[i] \in {GoodA, GoodB}
    /\ ret = <<>>

C5_ValidatedAnalysisInContract ==
    call.op = "analyze_articles_batch" =>
        \A i \in 1..Len(ret) :
            /\ ret[i].score \in 0..100
            /\ ret[i].category \in 1..6
            /\ Len(ret[i].tags) >= 3
            /\ Len(ret[i].tags) <= 8

\* ------------------------------------------------------------------ C11

\* the article_ids of a result of get_unanalysed_articles
ReturnedIds(res) == {res[i].article_id : i \in 1..Len(res)}

AnalysedIds(an) == {x.article_id : x \in an}

\* C11: get_unanalysed_articles returns no article that has a row in
\* articles_analyses, without a limit it returns every stored article that has
\* none, and an article_id that has an analysis keeps one for ever, so an
\* analysed article is never returned again.
C11_AnalysedNeverReturned ==
    /\ [](call.op = "get_unanalysed_articles" =>
            /\ ReturnedIds(ret) \cap AnalysedIds(analyses) = {}
            /\ ReturnedIds(ret) \subseteq {r.article_id : r \in articles}
            /\ (call.limit = 0 /\ ~ call.failed) =>
                  ReturnedIds(ret) = {r.article_id : r \in articles} \ AnalysedIds(analyses))
    /\ [][AnalysedIds(analyses) \subseteq AnalysedIds(analyses')]_vars

\* a stored article was analysed and a later call returned nothing
C11_Witness ==
    /\ call.op = "get_unanalysed_articles"
    /\ ~ call.failed
    /\ articles # {}
    /\ \A r \in articles : r.article_id \in AnalysedIds(analyses)
    /\ ret = <<>>

\* ------------------------------------------------------------------ C12

\* the {title, content} entries a result should carry for an article_id: one
\* per stored row of that article_id
StoredSources(tbl, aid) ==
    {[title |-> r.title, content |-> r.content] : r \in {x \in tbl : x.article_id = aid}}

RecordsOf(tbl, aid) == {r \in tbl : r.article_id = aid}

EarliestTimestamp(tbl, aid) == SetMin({Timestamp(r.date) : r \in RecordsOf(tbl, aid)})

RecordsSince(tbl, aid, cutoff) == {r \in RecordsOf(tbl, aid) : Timestamp(r.date) >= cutoff}

InsertRaised ==
    /\ call.op = "insert_article"
    /\ ~ insert_rejected(call.args)
    /\ exec_insert_article(dbType, articles, insert_params(call.args)).raised

\* C14: when the storage layer fails during insert_article,
\* get_unanalysed_articles, get_recent_articles or insert_article_analysis,
\* the operation returns False, an empty result or a zero count.
C14_StorageFailureGivesEmptyResult ==
    /\ InsertRaised => ret = FALSE
    /\ (call.op \in {"get_unanalysed_articles", "get_recent_articles"} /\ call.failed)
          => ret = <<>>
    /\ (call.op = "insert_article_analysis" /\ ~ call.committed) => ret = 0

\* ------------------------------------------------------------------ C17

\* C17: generate_article_id never raises: for every non-empty url it returns
\* an id, and for the empty url it returns the empty id.
C17_NeverRaises ==
    uop = "generated" =>
        /\ id1 # UnicodeRaised
        /\ Len(url) = 0 <=> id1 = EmptyStr

\* ------------------------------------------------------------------ properties of the command line

\* the names of the entries of scrapers that raised, in the order they ran
RaisedStages == SelectSeq(ran, LAMBDA r : r.raised)

\* C15: in the `all` command, when one of the Reddit, HackerNews or RSS
\* scrapers raises, every entry of scrapers including the analysis is still
\* run, the final report names the failed stages, and the process ends with
\* status 0.
C15_AllContinuesAfterScraperFailure ==
    (/\ command = "all"
     /\ cpc = "exited"
     /\ \E i \in 1..Len(ran) : ran[i].raised /\ ran[i].name # "Analysis")
    => /\ [i \in 1..Len(ran) |-> ran[i].name] = scrapers
       /\ report.printed
       /\ report.failures = [i \in 1..Len(RaisedStages) |-> RaisedStages[i].name]
       /\ exit_code = 0

\* the first scraper raised, the last one and the analysis did not, and the
\* process ended
C15_Witness ==
    /\ command = "all"
    /\ cpc = "exited"
    /\ Len(ran) = 4
    /\ ran[1].raised
    /\ ~ ran[3].raised
    /\ ~ ran[4].raised
    /\ report.failures # <<>>
    /\ exit_code = 0

\* the fatal configuration failures of a command: an argument out of range,
\* an unsupported language, a missing credential of a service it uses
ConfigFailure ==
    \/ command \in {"reddit", "hackernews", "rss", "all", "summary"}
          /\ validate_hours_back(cliArgs.hb)
    \/ command = "summary" /\ validate_relevance_score(cliArgs.score)
    \/ command = "summary" /\ validate_language(cliArgs.language)
    \/ command \in {"reddit", "all"} /\ ~ env.redditCred
    \/ command \in {"analysis", "all", "summary"} /\ ~ env.geminiKey

\* C16: a fatal configuration failure is raised before any side effect
\* (create_database, an insert, an external call) and the process ends with a
\* non-zero status.
C16_ConfigFailureBeforeSideEffects ==
    (cpc = "exited" /\ ConfigFailure) => (effects = {} /\ exit_code > 0)

\* the categories an analysis can carry
Categories == 1..6

\* a digest run whose arguments and credentials are in order
DigestRan ==
    /\ command = "summary"
    /\ cpc = "exited"
    /\ ~ ConfigFailure

\* C18: in a digest run a category with no matching article has no section
\* in the document, and every category with a matching article has one.
C18_SectionsForMatchingCategories ==
    DigestRan =>
        \A c \in Categories :
            c \in env.matching <=> c \in (document.sections \cup document.placeholders)

\* C19: in a digest run, a category whose summarization call fails gets a
\* placeholder note in place of its section, the other categories with
\* matching articles get their sections, and the document is written.
C19_PlaceholderForFailedCategory ==
    (DigestRan /\ env.matching # {}) =>
        /\ document.written
        /\ document.placeholders = env.matching \cap env.failing
        /\ document.sections = env.matching \ env.failing

\* ------------------------------------------------------------------ C20

\* C20: run_article_analysis calls the scoring service in every iteration
\* until get_unanalysed_articles returns nothing or three batches in a row
\* have failed: consecutive_failures stays within 0..3, no batch is analysed
\* once it is 3, the loop is left only on an empty fetch or on the third
\* failure, and every iteration before that calls the service.
C20_ServiceCalledUntilStop ==
    /\ [](consecutive_failures \in 0..MAX_CONSECUTIVE_FAILURES)
    /\ [][pc' = "analyze" => consecutive_failures < MAX_CONSECUTIVE_FAILURES]_vars
    /\ [][(pc = "fetch" /\ pc' = "stats") =>
            \/ consecutive_failures = MAX_CONSECUTIVE_FAILURES
            \/ unanalysed' = <<>>]_vars
    /\ [][(pc = "analyze" /\ pc' # "analyze") => service_calls' = service_calls + 1]_vars

\* ------------------------------------------------------------------ C21

C23_ValidResponsePersistedInOrder ==
    [][(pc = "analyze" /\ pc' # "analyze" /\ apiKey)
       => /\ call'.called
          /\ (/\ call'.response.kind = "list"
               /\ Len(call'.response.items) = Len(unanalysed)
               /\ \A i \in 1..Len(call'.response.items) :
                      analysis_valid(call'.response.items[i]))
              => \A i \in 1..Len(unanalysed) :
                    \E row \in analyses' :
                        /\ row.article_id = unanalysed[i].article_id
                        /\ row.relevance_score =
                              validated_analysis(call'.response.items[i]).score
                        /\ row.category =
                              validated_analysis(call'.response.items[i]).category
                        /\ row.tags =
                              json_dumps(validated_analysis(call'.response.items[i]).tags)]_vars

\* ------------------------------------------------------------------ C24

\* C24: when the store fails on one row of an insert_article_analysis call,
\* the rows of the call that were executed stay persisted, and the count
\* returned is the number of rows the call left in articles_analyses: the
\* rows it added or changed, and at most the replaced rows it wrote back
\* unchanged
C24_PartialFailureKeepsOtherRows ==
    [][(call'.op = "insert_article_analysis" /\ ~ call'.committed)
       => /\ ret' >= Cardinality(analyses' \ analyses)
          /\ ret' <= Cardinality(analyses' \ analyses)
                        + Cardinality(call'.replaced \cap analyses')]_nops

\* ------------------------------------------------------------------ C25

C26_StoredRecordsKept ==
    [][articles \subseteq articles']_nops

\* insert_article was given a valid record whose (source, id) is already
\* stored with other field values, and the stored row is still there
C26_Witness ==
    /\ call.op = "insert_article"
    /\ ~ insert_rejected(call.args)
    /\ analyses # {}
    /\ \E r \in articles :
          /\ r.source = insert_params(call.args).source
          /\ r.id = insert_params(call.args).id
          /\ r.article_url # insert_params(call.args).article_url
          /\ insert_params(call.args) \notin articles

\* ------------------------------------------------------------------ C27

\* C27: the text built for the scoring service from the unanalysed articles
\* (create_scoring_prompt applied to what get_unanalysed_articles returned)
\* carries for each article a title made of the distinct titles of all the
\* valid records received for its article_id, joined by " | "
C27_EveryTitleInPromptText ==
    (call.op = "get_unanalysed_articles" /\ ~ call.failed /\ call.limit = 0)
    => /\ ~ create_scoring_prompt([kind |-> "dict", entries |-> ret]).raises
       /\ \A i \in 1..Len(ret) :
             \A t \in attempted :
                 t.article_id = ret[i].article_id
                 => \E k \in 1..Len(split(create_scoring_prompt(
                                              [kind |-> "dict", entries |-> ret]).lines[i].title,
                                          " | ")) :
                        split(create_scoring_prompt(
                                  [kind |-> "dict", entries |-> ret]).lines[i].title,
                              " | ")[k] = t.title

\* ------------------------------------------------------------------ C28

\* s carries the tokens of sub, one after the other
Occurs(sub, s) ==
    \E i \in 1..(Len(s) - Len(sub) + 1) : SubSeq(s, i, i + Len(sub) - 1) = sub

\* the summary text carries a markdown link to u: "[", a text without "]",
\* "](", u and ")"
LinkedInSummary(u) ==
    \E i \in 1..Len(summary_text) :
        /\ summary_text[i] = "["
        /\ \E j \in (i + 2)..(Len(summary_text) - Len(u) - 2) :
              /\ summary_text[j] = "]"
              /\ \A k \in (i + 1)..(j - 1) : summary_text[k] # "]"
              /\ SubSeq(summary_text, j + 1, j + Len(u) + 2) = <<"(">> \o u \o <<")">>

\* the thread URLs an entry of the appendix lists
ListedThreads(e) ==
    {e.sources.reddit[k].url : k \in 1..Len(e.sources.reddit)}
    \cup {e.sources.hackernews[k] : k \in 1..Len(e.sources.hackernews)}

\* the lines of the appendix that name an article, and those that name a thread
ArticleLines == SelectSeq(discussion_section, LAMBDA l : Len(l) > 0 /\ l[1] = "- ")
ThreadLines == SelectSeq(discussion_section, LAMBDA l : Len(l) > 0 /\ l[1] = "  - ")

\* C28: every entry of the discussion-thread appendix is a markdown link of
\* the summary text (its text and its URL) whose URL is the article_url of an
\* input article, and lists only thread URLs of the records of that article;
\* the article lines of the section are these entries in order and its thread
\* lines end with the threads listed; an input article the summary does not
\* link to has no entry and its URL is on no line of the section
C28_AppendixEntriesAreLinkedArticles ==
    (dpc \in {"extracted", "built"})
    => /\ \A k \in 1..Len(referenced_articles) :
             /\ Len(referenced_articles[k].title) > 0
             /\ Occurs(<<"[">> \o referenced_articles[k].title \o <<"]", "(">>
                       \o referenced_articles[k].url \o <<")">>, summary_text)
             /\ ListedThreads(referenced_articles[k]) # {}
             /\ \E i \in 1..Len(articles_dict) :
                   /\ articles_dict[i].article_url = referenced_articles[k].url
                   /\ ListedThreads(referenced_articles[k])
                      \subseteq {articles_dict[i].sources[r].thread_url :
                                    r \in 1..Len(articles_dict[i].sources)}
       /\ \A i \in 1..Len(articles_dict) :
             ~ LinkedInSummary(articles_dict[i].article_url)
             => /\ \A k \in 1..Len(referenced_articles) :
                      referenced_articles[k].url # articles_dict[i].article_url
                /\ \A l \in 1..Len(discussion_section) :
                      ~ Occurs(articles_dict[i].article_url, discussion_section[l])
       /\ (dpc = "built")
          => /\ Len(ArticleLines) = Len(referenced_articles)
             /\ \A k \in 1..Len(ArticleLines) :
                   ArticleLines[k] = <<"- ", "[">> \o referenced_articles[k].title
                                     \o <<"]", "(">> \o referenced_articles[k].url \o <<")">>
             /\ \A l \in 1..Len(ThreadLines) :
                   \E k \in 1..Len(referenced_articles) :
                       \E t \in ListedThreads(referenced_articles[k]) :
                           SubSeq(ThreadLines[l], Len(ThreadLines[l]) - Len(t) - 1,
                                  Len(ThreadLines[l])) = <<"(">> \o t \o <<")">>

\* a built appendix with an entry for a linked article, while another input
\* article that has a thread is not linked and is left out
C28_Witness ==
    /\ dpc = "built"
    /\ Len(referenced_articles) > 0
    /\ Len(ThreadLines) > 0
    /\ \E i \in 1..Len(articles_dict) :
          /\ ~ LinkedInSummary(articles_dict[i].article_url)
          /\ ~ Falsy(articles_dict[i].sources[1].thread_url)
          /\ Occurs(articles_dict[i].article_url, summary_text)

\* ------------------------------------------------------------------ C29

\* C29: a run in which every store operation succeeded and the service had a
\* valid response for every batch returns with no unanalysed article left in
\* the store, every article the run found unanalysed having been sent to the
\* service
C29_NothingLeftWhenNothingFails ==
    (pc = "done" /\ ~ faulted)
    => /\ unanalysed_rows(articles, analyses) = {}
       /\ (attempts > 0 => service_calls > 0)

\* ------------------------------------------------------------------ C30

\* the rows stored with the key of the two calls
RowsWithKey ==
    {r \in articles : r.source = <<"hackernews">> /\ r.id = <<"1">>}

\* C30: two ingest runs call insert_article at the same time with the same
\* (source, id), a record insert_article accepts and whose key is not stored
\* yet: however the two calls interleave, once both have returned exactly one
\* of them has returned True and exactly one row with that key is stored
C30_ExactlyOneConcurrentInsertWins ==
    (/\ \A p \in Runs : ipc[p] = "returned" /\ ~ insert_rejected(irec[p])
     /\ \A r \in before : ~ (r.source = <<"hackernews">> /\ r.id = <<"1">>))
    => /\ Cardinality({p \in Runs : iret[p]}) = 1
       /\ Cardinality(RowsWithKey) = 1

====
